---- MODULE Spec2Model ----
(***************************************************************************)
(* State-machine model of the analytics dashboard: the Zustand store, the  *)
(* upload pipeline (UploadDataPage.processFile + csvParser), the chart     *)
(* configuration pipeline (ChartConfigurator.handleSave, useChartData,     *)
(* validateChartConfig), the AI client (services/openai: canMakeApiCall,   *)
(* retryWithBackoff, analyzeData, suggestChartWithAI, answerQuestion), the *)
(* insight cache (utils/aiHelpers) and the AI Insights page handlers.      *)
(*                                                                         *)
(* Time is Date.now() in milliseconds.  An async handler is split at its   *)
(* await: one action up to the await, one action for each way the awaited  *)
(* promise settles, running the rest of the handler (catch and finally     *)
(* included).                                                              *)
(***************************************************************************)
EXTENDS Integers, Sequences, FiniteSets, TLC

VARIABLES
  now,                \* Date.now()
  configured,         \* getConfigStatus().configured (fixed by the environment)
  currentPage,        \* store: currentPage
  \* ---- store: dataset ----
  csvData, dataColumns, dataStats, uploadError,
  \* ---- store: charts ----
  chartConfigs,
  \* ---- store: AI ----
  aiInsights, aiInsightsLoading, aiInsightsError,
  aiChatMessages, aiChatLoading, aiAutoGenerate,
  \* ---- UploadDataPage local state ----
  uploadedFile, isProcessing, processingError, processingResults, showPreview,
  parsing,            \* the parseCSVFile promise processFile is awaiting
  \* ---- DashboardPage / ChartConfigurator / ChartCard local state ----
  showConfigurator, editingChart, aiLoading, aiError, aiSuggestions, rendered,
  \* ---- services/openai module state ----
  lastApiCallTime,
  \* ---- utils/aiHelpers module state ----
  cache,
  \* ---- calls of the AI client that have not settled ----
  calls,
  \* ---- observations (history of what the operations did) ----
  lastCall, completedAnalyses,
  \* ---- store: export modal; ExportModal local state and its close timers ----
  showExportModal, exportStatus, isExporting, selectedFormat, closeTimers,
  \* ---- a call of one of the pure functions: its arguments, what it returned ----
  args, returned

vars == << now, configured, currentPage, csvData, dataColumns, dataStats,
           uploadError, chartConfigs, aiInsights, aiInsightsLoading,
           aiInsightsError, aiChatMessages, aiChatLoading, aiAutoGenerate,
           uploadedFile, isProcessing, processingError, processingResults,
           showPreview, parsing, showConfigurator, editingChart, aiLoading, aiError,
           aiSuggestions, rendered, lastApiCallTime, cache, calls, lastCall,
           completedAnalyses, showExportModal, exportStatus, isExporting,
           selectedFormat, closeTimers, args, returned >>
programData == << now, configured, currentPage, csvData, dataColumns, dataStats,
           uploadError, chartConfigs, aiInsights, aiInsightsLoading,
           aiInsightsError, aiChatMessages, aiChatLoading, aiAutoGenerate,
           uploadedFile, isProcessing, processingError, processingResults,
           showPreview, parsing, showConfigurator, editingChart, aiLoading, aiError,
           aiSuggestions, rendered, lastApiCallTime, cache, calls, lastCall,
           completedAnalyses >>
programVars == << now, configured, currentPage, csvData, dataColumns, dataStats,
           uploadError, chartConfigs, aiInsights, aiInsightsLoading,
           aiInsightsError, aiChatMessages, aiChatLoading, aiAutoGenerate,
           uploadedFile, isProcessing, processingError, processingResults,
           showPreview, parsing, showConfigurator, editingChart, aiLoading, aiError,
           aiSuggestions, rendered, lastApiCallTime, cache, calls, lastCall,
           completedAnalyses, showExportModal, exportStatus, isExporting,
           selectedFormat, closeTimers >>

dataVars   == << csvData, dataColumns, dataStats >>
uploadVars == << uploadedFile, isProcessing, processingError,
                 processingResults, showPreview, parsing, uploadError >>
chartVars  == << chartConfigs, showConfigurator, editingChart, rendered >>
insightVars == << aiInsights, aiInsightsLoading, aiInsightsError >>
chatVars   == << aiChatMessages, aiChatLoading >>
suggestVars == << aiLoading, aiError, aiSuggestions >>
aiStoreVars == << insightVars, chatVars >>
moduleVars == << lastApiCallTime, cache, calls >>
ghostVars  == << lastCall, completedAnalyses >>
clientVars == << moduleVars, ghostVars, suggestVars >>
pureVars   == << args, returned >>
exportVars == << showExportModal, exportStatus, isExporting, selectedFormat, closeTimers >>

(***************************************************************************)
(* Bounds of the model.                                                    *)
(***************************************************************************)
StartTime == 2000         \* Date.now() when the application is loaded
SmallSteps == 3           \* number of clock steps explored before a jump
MaxCharts == 2            \* chart configurations kept in the store
MaxChat == 2              \* chat messages kept in the model of the history

(***************************************************************************)
(* JavaScript values.  null is Null; undefined is Undefined; a cell of a   *)
(* parsed row is a tagged value (PapaParse dynamicTyping yields numbers,   *)
(* booleans, strings and null).                                            *)
(***************************************************************************)
Null == "<null>"
Undefined == "<undefined>"

Num(n)  == [k |-> "number",  n |-> n, s |-> ""]
Str(s)  == [k |-> "string",  n |-> 0, s |-> s]
NullV   == [k |-> "null",    n |-> 0, s |-> ""]
Bool(b) == [k |-> "boolean", n |-> IF b THEN 1 ELSE 0, s |-> ""]

\* String.prototype.trim on the strings of the model: the blank strings
\* trim to the empty string, the other strings carry no outer white space.
BlankStrings == {"", " "}
trim(s) == IF s \in BlankStrings THEN "" ELSE s

\* The strings of the model that Number() converts and that new Date() parses.
NumericStrings == {"7", "2024"}
DateStrings == {"2024-01-01", "2024-02-01", "2024"}

RemoveAt(seq, i) == SubSeq(seq, 1, i - 1) \o SubSeq(seq, i + 1, Len(seq))
Min2(a, b) == IF a < b THEN a ELSE b
Max2(a, b) == IF a > b THEN a ELSE b

(***************************************************************************)
(* Datasets: an array of rows; a row maps its keys to cells.  keys is      *)
(* Object.keys of the first row, in insertion (header) order.              *)
(***************************************************************************)
Row2(c1, v1, c2, v2) == (c1 :> v1) @@ (c2 :> v2)

DataA  == [keys |-> << "region", "sales" >>,
           rows |-> << Row2("region", Str("east"), "sales", Num(10)),
                       Row2("region", Str("west"), "sales", Num(20)) >>]
\* same shape and first row as DataA, different second row
DataA2 == [keys |-> << "region", "sales" >>,
           rows |-> << Row2("region", Str("east"), "sales", Num(10)),
                       Row2("region", Str("west"), "sales", Num(99)) >>]
\* a re-upload whose columns differ from DataA's
DataB  == [keys |-> << "region", "profit" >>,
           rows |-> << Row2("region", Str("east"), "profit", Num(3)),
                       Row2("region", Str("north"), "profit", NullV) >>]
\* header line "region," : the second header is blank
DataBlank == [keys |-> << "region", "" >>,
              rows |-> << Row2("region", Str("east"), "", Num(1)) >>]
\* an array with no rows, and the JavaScript null in the place of an array
EmptyData == [keys |-> << >>, rows |-> << >>]
NullData == [keys |-> << >>, rows |-> << >>, null |-> TRUE]

Datasets == {DataA, DataA2, DataB, DataBlank}

length(data) == Len(data.rows)
\* !data || data.length === 0
NoRows(data) == data = NullData \/ length(data) = 0
\* row[columnName]: undefined (here the null cell) when the row has no such key
Cell(row, c) == IF c \in DOMAIN row THEN row[c] ELSE NullV
\* a test that takes only null for empty
IsEmptyCellNullOnly(v) == v.k = "null"
\* v === null || v === undefined || v === ''
IsEmptyCell(v) == v.k = "null" \/ (v.k = "string" /\ v.s = "")

(***************************************************************************)
(* csvParser.validateCSV.  Messages are kept as <<text, number>> pairs in  *)
(* the place of the interpolated strings.                                  *)
(***************************************************************************)
RECURSIVE rowWarnings(_, _, _, _)
\* the warnings pushed for the first three rows i of 1..n with P[i]
rowWarnings(P, text, i, found) ==
  IF i > Len(P) \/ found >= 3 THEN << >>
  ELSE IF P[i] THEN << << text, i >> >> \o rowWarnings(P, text, i + 1, found + 1)
       ELSE rowWarnings(P, text, i + 1, found)

validateCSV(data) ==
  IF data = NullData
  THEN [valid |-> FALSE, message |-> "Invalid data format. Expected an array of objects.",
        warnings |-> << >>]
  ELSE IF length(data) = 0
  THEN [valid |-> FALSE, message |-> "CSV file is empty. Please upload a file with data.",
        warnings |-> << >>]
  ELSE
  LET columns == DOMAIN data.rows[1]
      emptyHeaders == {col \in columns : trim(col) = ""}
      n == length(data)
      inconsistent == [i \in 1..n |-> DOMAIN data.rows[i] # columns]
      inconsistentRows == Cardinality({i \in 1..n : inconsistent[i]})
      allEmpty == [i \in 1..n |->
                     \A c \in DOMAIN data.rows[i] : IsEmptyCell(data.rows[i][c])]
      emptyRows == Cardinality({i \in 1..n : allEmpty[i]})
      w5 == rowWarnings(inconsistent, "Row has different columns than the header row", 1, 0)
      w6 == rowWarnings(allEmpty, "Row contains all empty values", 1, 0)
      w6b == IF 10 * emptyRows > 2 * n   \* emptyRows > data.length * 0.2
             THEN << << "rows contain all empty values", emptyRows >> >> ELSE << >>
      w7 == IF n < 5
            THEN << << "Dataset is very small (less than 5 rows). Analysis may be limited.", n >> >>
            ELSE << >>
      w8 == IF n > 10000
            THEN << << "Large dataset detected. Processing may take longer.", n >> >>
            ELSE << >>
  IN IF columns = {}
     THEN [valid |-> FALSE, message |-> "No columns found in CSV file.", warnings |-> << >>]
     ELSE IF emptyHeaders # {}
     THEN [valid |-> FALSE,
           message |-> "CSV contains empty column headers. Please ensure all columns have names.",
           warnings |-> << >>]
     ELSE IF 10 * inconsistentRows > n   \* inconsistentRows > data.length * 0.1
     THEN [valid |-> FALSE,
           message |-> "Too many inconsistent rows. Please check your CSV structure.",
           warnings |-> w5]
     ELSE [valid |-> TRUE, message |-> "", warnings |-> w5 \o w6 \o w6b \o w7 \o w8]

(***************************************************************************)
(* csvParser.inferColumnTypes and getDataSummary.  A descriptor carries    *)
(* name, type, nullable, uniqueCount and nullCount; sampleValues, min/max  *)
(* and categories are derived display data and are not carried.            *)
(***************************************************************************)
\* a test that converts no string
isNumberCellNumbersOnly(v) == v.k = "number"
\* typeof v === 'number', or a string that Number() converts
isNumberCell(v) ==
  \/ v.k = "number"
  \/ v.k = "string" /\ v.s \in NumericStrings /\ trim(v.s) # ""
isDateCell(v) == v.k = "string" /\ v.s \in DateStrings

inferColumn(sample, columnName) ==
  LET values == [i \in DOMAIN sample |-> Cell(sample[i], columnName)]
      nonNullIdx == {i \in DOMAIN values : ~IsEmptyCell(values[i])}
      nonNullValues == {values[i] : i \in nonNullIdx}
      nullCount == Len(values) - Cardinality(nonNullIdx)
      uniqueCount == Cardinality(nonNullValues)
      isBoolean == \A v \in nonNullValues : v.k = "boolean"
      isNumber == \A v \in nonNullValues : isNumberCell(v)
      isDate == \A v \in nonNullValues : isDateCell(v)
      \* uniqueCount < Math.max(10, nonNullValues.length * 0.1)
      isCategorical == 10 * uniqueCount < Max2(100, Cardinality(nonNullIdx))
  IN IF nonNullIdx = {}
     THEN [name |-> columnName, type |-> "string", nullable |-> TRUE,
           uniqueCount |-> 0, nullCount |-> Len(values)]
     ELSE [name |-> columnName,
           type |-> IF isBoolean THEN "boolean"
                    ELSE IF isNumber THEN "number"
                    ELSE IF isDate THEN "date"
                    ELSE IF isCategorical THEN "category" ELSE "string",
           nullable |-> nullCount > 0,
           uniqueCount |-> uniqueCount, nullCount |-> nullCount]

inferColumnTypes(data) ==
  IF NoRows(data) THEN << >>
  ELSE LET sampleSize == Min2(100, length(data))
           sample == SubSeq(data.rows, 1, sampleSize)
       IN [i \in DOMAIN data.keys |-> inferColumn(sample, data.keys[i])]

RECURSIVE SumSeq(_)
SumSeq(s) == IF s = << >> THEN 0 ELSE Head(s) + SumSeq(Tail(s))

\* Math.round(completeness) with completeness = (cells - nulls) / cells * 100;
\* memorySize and the other roundings of the same ratio are not carried.
getDataSummary(data) ==
  IF NoRows(data)
  THEN [totalRows |-> 0, totalColumns |-> 0, columns |-> << >>,
        totalNulls |-> 0, qualityScore |-> 0]
  ELSE LET columns == inferColumnTypes(data)
           totalNulls == SumSeq([i \in DOMAIN columns |-> columns[i].nullCount])
           totalCells == length(data) * Len(columns)
       IN [totalRows |-> length(data), totalColumns |-> Len(columns),
           columns |-> columns, totalNulls |-> totalNulls,
           qualityScore |-> IF totalCells = 0 THEN 0
                            ELSE (200 * (totalCells - totalNulls) + totalCells)
                                   \div (2 * totalCells)]

(***************************************************************************)
(* Chart configurations.  A configuration names columns by name; '' is the *)
(* unset selection.  chartHelpers.validateChartConfig returns {isValid,    *)
(* error}; an error is a <<text, column>> pair in the place of the         *)
(* interpolated string.                                                    *)
(***************************************************************************)
NullConfig == [null |-> TRUE]
Falsy(s) == s \in {"", Undefined, Null}
Invalid(text, col) == [isValid |-> FALSE, error |-> << text, col >>]
Valid == [isValid |-> TRUE, error |-> << Null, "" >>]
includes(columnNames, c) == \E i \in DOMAIN columnNames : columnNames[i] = c

\* a validator that accepts every configuration
validateChartConfigAcceptingAll(config, columns) == Valid

validateChartConfig(config, columns) ==
  IF config = NullConfig THEN Invalid("Configuration is required", "")
  ELSE IF Falsy(config.chartType) THEN Invalid("Chart type is required", "")
  ELSE IF Len(columns) = 0 THEN Invalid("No columns available", "")
  ELSE
  LET columnNames == columns
      xy == IF Falsy(config.xColumn) THEN Invalid("X-axis column is required", "")
            ELSE IF Falsy(config.yColumn) THEN Invalid("Y-axis column is required", "")
            ELSE IF ~includes(columnNames, config.xColumn)
                 THEN Invalid("Column not found", config.xColumn)
            ELSE IF ~includes(columnNames, config.yColumn)
                 THEN Invalid("Column not found", config.yColumn)
            ELSE Valid
  IN CASE config.chartType \in {"bar", "line"} -> xy
       [] config.chartType = "pie" ->
            IF Falsy(config.categoryColumn) THEN Invalid("Category column is required", "")
            ELSE IF ~includes(columnNames, config.categoryColumn)
                 THEN Invalid("Column not found", config.categoryColumn)
            ELSE IF ~Falsy(config.valueColumn) /\ ~includes(columnNames, config.valueColumn)
                 THEN Invalid("Column not found", config.valueColumn)
            ELSE Valid
       [] config.chartType = "scatter" -> xy
       [] OTHER -> Invalid("Unknown chart type", config.chartType)

(***************************************************************************)
(* hooks/useChartData.  The transformer that the switch selects is kept as *)
(* the call it makes (function and arguments); a call that throws is the   *)
(* TypeError of aggregation.toLowerCase() on a value that is not a string, *)
(* raised when the transformer aggregates a group.                         *)
(***************************************************************************)
NonString == "<non-string>"
\* strings of the model for which parseFloat returns a number
FractionStrings == {"0.004", "0.005"}
ParseFloatStrings == NumericStrings \cup DateStrings \cup FractionStrings
parseFloatIsNaN(v) == ~(v.k = "number" \/ (v.k = "string" /\ v.s \in ParseFloatStrings))

\* rows that prepareBarChartData / prepareLineChartData put in a group
groupedRows(data, xColumn, yColumn) ==
  {i \in DOMAIN data.rows :
     /\ Cell(data.rows[i], xColumn).k # "null"
     /\ ~parseFloatIsNaN(Cell(data.rows[i], yColumn))}

NoCall == [fn |-> "none"]
transformerCall(config) ==
  LET dflt(v, d) == IF v = Undefined THEN d ELSE v
  IN CASE config.chartType = "bar" ->
            [fn |-> "prepareBarChartData", xColumn |-> config.xColumn,
             yColumn |-> config.yColumn, aggregation |-> dflt(config.aggregation, "sum")]
       [] config.chartType = "line" ->
            [fn |-> "prepareLineChartData", xColumn |-> config.xColumn,
             yColumn |-> config.yColumn, aggregation |-> dflt(config.aggregation, "sum")]
       [] config.chartType = "pie" ->
            [fn |-> "preparePieChartData", categoryColumn |-> config.categoryColumn,
             valueColumn |-> config.valueColumn, topN |-> config.topN]
       [] config.chartType = "scatter" ->
            [fn |-> "prepareScatterData", xColumn |-> config.xColumn,
             yColumn |-> config.yColumn, nameColumn |-> config.nameColumn]
       [] OTHER -> NoCall

transformerThrows(data, call) ==
  /\ call.fn \in {"prepareBarChartData", "prepareLineChartData"}
  /\ call.aggregation = NonString
  /\ LET g == groupedRows(data, call.xColumn, call.yColumn)
     IN IF call.fn = "prepareBarChartData" THEN g # {}
        ELSE \* the line transformer aggregates only groups of several rows
             \E i, j \in g : i # j /\
                Cell(data.rows[i], call.xColumn) = Cell(data.rows[j], call.xColumn)

useChartDataValidation(data, config) ==
  IF NoRows(data) THEN Invalid("No data available", "")
  ELSE IF config = NullConfig \/ Falsy(config.chartType)
  THEN Invalid("Chart configuration is incomplete", "")
  ELSE validateChartConfig(config, data.keys)

\* the hook without its `if (!validation.isValid) return []`
useChartDataUnguarded(data, config) ==
  LET validation == useChartDataValidation(data, config)
      call == IF config = NullConfig THEN NoCall ELSE transformerCall(config)
  IN [chartData |-> IF call = NoCall THEN << >> ELSE << call >>,
      isValid |-> validation.isValid,
      error |-> validation.error,
      called |-> call.fn,
      escaped |-> FALSE]

\* {chartData, isValid, error}: chartData is << >> (no points) or the one
\* transformer call whose result it is; called and escaped observe the hook.
useChartData(data, config) ==
  LET validation == useChartDataValidation(data, config)
      call == IF validation.isValid THEN transformerCall(config) ELSE NoCall
      threw == call # NoCall /\ transformerThrows(data, call)
  IN [chartData |-> IF call = NoCall \/ threw THEN << >> ELSE << call >>,
      isValid |-> validation.isValid,
      error |-> validation.error,
      called |-> call.fn,
      escaped |-> FALSE]   \* the catch returns [] for whatever the call throws

(***************************************************************************)
(* utils/chartHelpers: the data transformers.  Numbers are carried in      *)
(* thousandths, so that Math.round(x * 100) / 100 has something to round.  *)
(* A point is {name, value}; the result is the array of points.            *)
(***************************************************************************)
Thousand == 1000
\* parseFloat of a cell that parseFloatIsNaN lets through, in thousandths
parseFloat(v) ==
  IF v.k = "number" THEN Thousand * v.n
  ELSE CASE v.s = "0.004" -> 4
         [] v.s = "0.005" -> 5
         [] v.s = "7" -> Thousand * 7
         [] OTHER -> Thousand * 2024   \* "2024", "2024-01-01", "2024-02-01"

\* a rounding that drops the thousandths
round2Truncating(m) == IF m >= 0 THEN 10 * (m \div 10) ELSE -(10 * ((-m) \div 10))
\* Math.round(x * 100) / 100: to the nearest hundredth, halves upwards
round2(m) == 10 * ((m + 5) \div 10)

\* String(value) of a cell that is not null
String(v) == IF v.k = "number" THEN ToString(v.n) ELSE v.s

\* The accumulator of the reduce is the literal {}: acc[key] of a key that
\* Object.prototype defines is the inherited member, which is truthy, so no
\* group is created under it (some of the inherited names).
ObjectPrototypeKeys == {"constructor", "toString", "__proto__"}

\* Object.values(grouped): the integer-like keys first, in ascending
\* order, then the other keys in the order of their creation.  first[k] is
\* the row that created k.
\* the integer-like keys of the model, in ascending order
IndexKeys == << "7", "9", "10", "2024" >>
isIndexKey(k) == \E n \in DOMAIN IndexKeys : IndexKeys[n] = k
indexOfKey(k) == CHOOSE n \in DOMAIN IndexKeys : IndexKeys[n] = k
ObjectKeys(first) ==
  LET K == DOMAIN first
      precedes(a, b) ==
        IF isIndexKey(a)
        THEN ~isIndexKey(b) \/ indexOfKey(a) < indexOfKey(b)
        ELSE ~isIndexKey(b) /\ first[a] < first[b]
      rank(a) == Cardinality({b \in K : precedes(b, a)}) + 1
  IN [i \in 1..Cardinality(K) |-> CHOOSE a \in K : rank(a) = i]

\* Array.prototype.sort: stable; after(a, b) is compareFn(a, b) > 0.  Each
\* element is inserted behind the elements it does not have to pass.
sort(s, after(_, _)) ==
  LET insert(t, x) ==
        LET n == Len(t)
            j == CHOOSE j \in 0..n :
                   /\ \A m \in (j + 1)..n : after(t[m], x)
                   /\ j = 0 \/ ~after(t[j], x)
        IN SubSeq(t, 1, j) \o << x >> \o SubSeq(t, j + 1, n)
      sorted[i \in 0..Len(s)] ==
        IF i = 0 THEN << >> ELSE insert(sorted[i - 1], s[i])
  IN sorted[Len(s)]

RECURSIVE SumFn(_)
SumFn(f) ==
  IF DOMAIN f = {} THEN 0
  ELSE LET i == CHOOSE i \in DOMAIN f : TRUE
       IN f[i] + SumFn([j \in DOMAIN f \ {i} |-> f[j]])

\* the row that first has each key
firstRows(members, key(_)) ==
  LET keys == {key(i) : i \in members}
  IN [k \in keys |-> CHOOSE i \in members :
                       key(i) = k /\ \A j \in members : key(j) = k => i <= j]

Point(name, value) == [name |-> name, value |-> value]

preparePieChartData(data, categoryColumn, valueColumn, topN) ==
  IF NoRows(data) \/ Falsy(categoryColumn) THEN << >>
  ELSE
    LET rows == data.rows
        category(i) == Cell(rows[i], categoryColumn)
        \* rows whose category is neither null nor undefined, and of these
        \* the rows whose group is an own property of the accumulator
        counted == {i \in DOMAIN rows : category(i).k # "null"}
        owned == {i \in counted : String(category(i)) \notin ObjectPrototypeKeys}
        categoryStr(i) == String(category(i))
        members(k) == {i \in owned : categoryStr(i) = k}
        value(i) == Cell(rows[i], valueColumn)
        sum(k) == SumFn([i \in members(k) |->
                          IF parseFloatIsNaN(value(i)) THEN 0 ELSE parseFloat(value(i))])
        count(k) == Thousand * Cardinality(members(k))
        keys == ObjectKeys(firstRows(owned, categoryStr))
        result == [i \in DOMAIN keys |->
                     Point(keys[i], IF ~Falsy(valueColumn) THEN round2(sum(keys[i]))
                                    ELSE count(keys[i]))]
        sorted == sort(result, LAMBDA a, b : b.value - a.value > 0)
    \* topN && topN > 0 && result.length > topN
    IN IF topN.k = "number" /\ topN.n > 0 /\ Len(sorted) > topN.n
       THEN LET others == SubSeq(sorted, topN.n + 1, Len(sorted))
                othersSum == SumFn([i \in DOMAIN others |-> others[i].value])
            IN SubSeq(sorted, 1, topN.n) \o << Point("Others", round2(othersSum)) >>
       ELSE sorted

\* What a call of a transformer does: it returns its array of points, or it
\* throws a TypeError.
Returns(points) == [threw |-> FALSE, points |-> points]
Throws == [threw |-> TRUE, points |-> << >>]

\* String.prototype.toLowerCase on the aggregation names of the model
toLowerCase(s) ==
  CASE s = "COUNT" -> "count"
    [] s = "Sum" -> "sum"
    [] OTHER -> s

SetMin(S) == CHOOSE m \in S : \A x \in S : m <= x
SetMax(S) == CHOOSE m \in S : \A x \in S : x <= m

\* the switch over aggregation.toLowerCase(), and the rounding of its
\* result: values is the function from the rows of a group to their numbers
aggregate(aggregation, values) ==
  LET n == Cardinality(DOMAIN values)
      total == SumFn(values)
      range == {values[i] : i \in DOMAIN values}
      a == toLowerCase(aggregation)
  IN CASE a = "sum" -> round2(total)
       \* Math.round(total / n * 100) / 100
       [] a \in {"avg", "average"} -> 10 * ((total + 5 * n) \div (10 * n))
       [] a = "count" -> round2(Thousand * n)
       [] a = "min" -> round2(SetMin(range))
       [] a = "max" -> round2(SetMax(range))
       [] OTHER -> round2(total)

prepareBarChartData(data, xColumn, yColumn, aggregation) ==
  IF NoRows(data) \/ Falsy(xColumn) \/ Falsy(yColumn) THEN Returns(<< >>)
  ELSE
    LET rows == data.rows
        grouped == groupedRows(data, xColumn, yColumn)
        \* acc[xValue]: the property key is the string of the value
        xValue(i) == String(Cell(rows[i], xColumn))
        yValue(i) == parseFloat(Cell(rows[i], yColumn))
        members(k) == {i \in grouped : xValue(i) = k}
        values(k) == [i \in members(k) |-> yValue(i)]
        keys == ObjectKeys(firstRows(grouped, xValue))
        result == [i \in DOMAIN keys |->
                     [name |-> keys[i],
                      value |-> aggregate(aggregation, values(keys[i])),
                      count |-> Cardinality(members(keys[i])),
                      min |-> SetMin({yValue(j) : j \in members(keys[i])}),
                      max |-> SetMax({yValue(j) : j \in members(keys[i])})]]
    IN \* acc[xValue].values is undefined under an inherited key: push throws
       IF \E i \in grouped : xValue(i) \in ObjectPrototypeKeys THEN Throws
       \* aggregation.toLowerCase(), once there is a group to aggregate
       ELSE IF aggregation = NonString /\ grouped # {} THEN Throws
       ELSE Returns(sort(result, LAMBDA a, b : b.value - a.value > 0))

\* new Date(value).getTime() for the X values of the model, as the place of
\* the instant among the instants of the model (numbers are milliseconds
\* after the epoch); NaN for a string that is no date.
NaN == -1
getTime(v) ==
  IF v.k = "number" THEN v.n
  ELSE CASE v.s = "12/1/2023" -> 1001
         [] v.s \in {"2024", "2024-01-01"} -> 1002
         [] v.s = "1/2/2024" -> 1003
         [] v.s = "2024-02-01" -> 1004
         [] OTHER -> NaN

\* String.prototype.localeCompare on the names of the model: the names in
\* collation order, which for these names is also the order of their code
\* units
Collation == << "", "1/2/2024", "10", "12/1/2023", "2024", "2024-01-01",
                "2024-02-01", "7", "9", "constructor", "east", "n/a", "west" >>
place(name) == CHOOSE n \in DOMAIN Collation : Collation[n] = name
localeCompare(a, b) == place(a) - place(b)

\* a comparator that compares names only
compareNames(a, b) == localeCompare(a.name, b.name)
\* (a, b) => both dates valid ? dateA - dateB : name.localeCompare(name)
compareDatesThenNames(a, b) ==
  IF getTime(a.date) # NaN /\ getTime(b.date) # NaN
  THEN getTime(a.date) - getTime(b.date)
  ELSE localeCompare(a.name, b.name)

\* a group of one row keeps its value; the others go through the switch,
\* whose default is the average
aggregateLine(aggregation, values) ==
  LET n == Cardinality(DOMAIN values)
      total == SumFn(values)
      range == {values[i] : i \in DOMAIN values}
      a == toLowerCase(aggregation)
  IN IF n = 1 THEN round2(total)
     ELSE CASE a = "sum" -> round2(total)
            [] a = "min" -> round2(SetMin(range))
            [] a = "max" -> round2(SetMax(range))
            [] OTHER -> 10 * ((total + 5 * n) \div (10 * n))

\* The cells of the model are never Date objects, so the instanceof Date
\* branch is not taken.
prepareLineChartData(data, xColumn, yColumn, aggregation) ==
  IF NoRows(data) \/ Falsy(xColumn) \/ Falsy(yColumn) THEN Returns(<< >>)
  ELSE
    LET rows == data.rows
        grouped == groupedRows(data, xColumn, yColumn)
        xValue(i) == String(Cell(rows[i], xColumn))
        members(k) == {i \in grouped : xValue(i) = k}
        values(k) == [i \in members(k) |-> parseFloat(Cell(rows[i], yColumn))]
        first == firstRows(grouped, xValue)
        keys == ObjectKeys(first)
        result == [i \in DOMAIN keys |->
                     [name |-> keys[i],
                      value |-> aggregateLine(aggregation, values(keys[i])),
                      date |-> Cell(rows[first[keys[i]]], xColumn)]]
    IN IF \E i \in grouped : xValue(i) \in ObjectPrototypeKeys THEN Throws
       ELSE IF aggregation = NonString /\ \E k \in DOMAIN first : Cardinality(members(k)) > 1
       THEN Throws
       ELSE Returns(sort(result, LAMBDA a, b : compareDatesThenNames(a, b) > 0))

\* chartHelpers.suggestChartType.  columns is the array of descriptors
\* {name, type}; a suggestion carries its columns under xColumn and yColumn
\* (categoryColumn and valueColumn for a pie) and its reason.
Suggestion(chartType, reason, x, y, aggregation) ==
  [chartType |-> chartType, reason |-> reason, xColumn |-> x, yColumn |-> y,
   aggregation |-> aggregation]
PieSuggestion(reason, categoryColumn) ==
  [chartType |-> "pie", reason |-> reason, categoryColumn |-> categoryColumn,
   valueColumn |-> Null]

\* columns.find(c => c.name === colName): its type, or null
getColumnType(columns, colName) ==
  IF \E i \in DOMAIN columns : columns[i].name = colName
  THEN columns[CHOOSE i \in DOMAIN columns :
                 /\ columns[i].name = colName
                 /\ \A j \in DOMAIN columns : columns[j].name = colName => i <= j].type
  ELSE Null

\* a scan that tries the pairs in the order of the selected-pair rules
scanColumnsScatterFirst(columns) ==
  LET numericCols == SelectSeq(columns, LAMBDA c : c.type = "number")
      categoryCols == SelectSeq(columns, LAMBDA c : c.type \in {"category", "string"})
      dateCols == SelectSeq(columns, LAMBDA c : c.type = "date")
  IN IF Len(numericCols) >= 2
     THEN Suggestion("scatter", "Multiple numeric columns found",
                     numericCols[1].name, numericCols[2].name, Null)
     ELSE IF Len(dateCols) > 0 /\ Len(numericCols) > 0
     THEN Suggestion("line", "Date and numeric columns found",
                     dateCols[1].name, numericCols[1].name, "avg")
     ELSE IF Len(categoryCols) > 0 /\ Len(numericCols) > 0
     THEN Suggestion("bar", "Category and numeric columns found",
                     categoryCols[1].name, numericCols[1].name, "sum")
     ELSE IF Len(categoryCols) > 0
     THEN PieSuggestion("Categorical columns found", categoryCols[1].name)
     ELSE Suggestion(Null, "Unable to suggest chart type", Null, Null, Null)
\* the suggestions from the whole column set
scanColumns(columns) ==
  LET numericCols == SelectSeq(columns, LAMBDA c : c.type = "number")
      categoryCols == SelectSeq(columns, LAMBDA c : c.type \in {"category", "string"})
      dateCols == SelectSeq(columns, LAMBDA c : c.type = "date")
  IN IF Len(dateCols) > 0 /\ Len(numericCols) > 0
     THEN Suggestion("line", "Date and numeric columns found",
                     dateCols[1].name, numericCols[1].name, "avg")
     ELSE IF Len(categoryCols) > 0 /\ Len(numericCols) > 0
     THEN Suggestion("bar", "Category and numeric columns found",
                     categoryCols[1].name, numericCols[1].name, "sum")
     ELSE IF Len(numericCols) >= 2
     THEN Suggestion("scatter", "Multiple numeric columns found",
                     numericCols[1].name, numericCols[2].name, Null)
     ELSE IF Len(categoryCols) > 0
     THEN PieSuggestion("Categorical columns found", categoryCols[1].name)
     ELSE Suggestion(Null, "Unable to suggest chart type", Null, Null, Null)

\* !columns is not carried: columns is always an array here
suggestChartType(columns, xColumn, yColumn) ==
  IF Len(columns) = 0
  THEN Suggestion(Null, "No columns available", Null, Null, Null)
  ELSE
    LET xType == getColumnType(columns, xColumn)
        yType == getColumnType(columns, yColumn)
        selected == ~Falsy(xColumn) /\ ~Falsy(yColumn)
    IN IF selected /\ xType = "number" /\ yType = "number"
       THEN Suggestion("scatter", "Both columns are numeric", xColumn, yColumn, Null)
       ELSE IF selected /\ xType = "date" /\ yType = "number"
       THEN Suggestion("line", "Time-series data", xColumn, yColumn, "avg")
       ELSE IF selected /\ xType \in {"category", "string", "boolean"} /\ yType = "number"
       THEN Suggestion("bar", "Categorical X and numeric Y", xColumn, yColumn, "sum")
       ELSE IF selected /\ xType \in {"category", "string"}
                        /\ (Falsy(yColumn) \/ yType \in {"category", "string"})
       THEN PieSuggestion("Categorical data", xColumn)
       ELSE scanColumns(columns)

(***************************************************************************)
(* Files offered to the upload page.  papa is what Papa.parse does with    *)
(* the file: it calls complete(results) with results.errors and            *)
(* results.data, or it calls error(err).                                   *)
(***************************************************************************)
MaxFileSize == 10485760   \* 10 * 1024 * 1024

File(name, type, size, papa) == [name |-> name, type |-> type, size |-> size, papa |-> papa]
Complete(errors, data) == [callback |-> "complete", errors |-> errors, data |-> data]
ReadError == [callback |-> "error", errors |-> 0, data |-> EmptyData]

Files ==
  { File("a.csv", "text/csv", 40, Complete(0, DataA)),
    File("a2.csv", "text/csv", 40, Complete(0, DataA2)),
    File("b.csv", "text/csv", 40, Complete(0, DataB)),
    File("blank-header.csv", "text/csv", 20, Complete(0, DataBlank)),
    File("zero-bytes.csv", "text/csv", 0, Complete(1, EmptyData)),
    File("header-only.csv", "", 12, Complete(0, EmptyData)),
    File("malformed.csv", "text/csv", 40, Complete(1, DataA)),
    File("unreadable.csv", "text/csv", 40, ReadError),
    File("notes.txt", "text/plain", 40, Complete(0, DataA)),
    File("huge.csv", "text/csv", MaxFileSize + 1, Complete(0, DataA)) }

NoFile == [name |-> Null]
typeIncludesCsv(type) == type \in {"text/csv"}
nameEndsWithCsv(name) == name \notin {"notes.txt"}

\* csvParser.parseCSVFile: how the promise settles for a file
\* a parser that resolves with the rows it has whatever errors Papa reports
parseCSVFileIgnoringErrors(file) ==
  IF file.papa.callback = "complete"
  THEN [settled |-> "resolved", message |-> "", errors |-> 0, data |-> file.papa.data]
  ELSE [settled |-> "rejected", message |-> "Failed to parse CSV file",
        errors |-> 0, data |-> EmptyData]

parseCSVFile(file) ==
  IF file.papa.callback = "complete"
  THEN IF file.papa.errors > 0
       THEN [settled |-> "rejected", message |-> "CSV parsing encountered errors",
             errors |-> file.papa.errors, data |-> EmptyData]
       ELSE [settled |-> "resolved", message |-> "", errors |-> file.papa.errors,
             data |-> file.papa.data]
  ELSE [settled |-> "rejected", message |-> "Failed to parse CSV file",
        errors |-> 0, data |-> EmptyData]

(***************************************************************************)
(* Store values.                                                           *)
(***************************************************************************)
\* exportStatus: null
NoExportStatus == [type |-> "none", message |-> ""]
\* no function is being applied
NoArgs == [fn |-> "none"]
NotCalled == [called |-> FALSE]
UndefinedColumns == [undefined |-> TRUE]        \* the store defines no dataColumns
Columns(cols) == [cols |-> cols]
EmptyStats == [empty |-> TRUE]                  \* dataStats: {}
NoResults == [null |-> TRUE]
NoRender == [id |-> 0]
Pages == {"dashboard", "upload", "insights"}    \* the sidebar's pages modelled

(***************************************************************************)
(* The clock.  It advances in steps of TickStep from StartTime to          *)
(* StartTime + SmallSteps * TickStep, and by jumps d of about the cache    *)
(* duration.                                                               *)
(***************************************************************************)
cacheDuration == 1000 * 60 * 30
TickStep == 1000
CacheTicks == {cacheDuration, cacheDuration + TickStep}
MaxNow == StartTime + SmallSteps * TickStep + cacheDuration

Tick(d) ==
  /\ UNCHANGED << pureVars, exportVars >>
  /\ now + d <= MaxNow
  /\ d = TickStep => (now - StartTime) % cacheDuration < SmallSteps * TickStep
  /\ now' = now + d
  /\ UNCHANGED << configured, currentPage, dataVars, uploadVars, chartVars,
                  aiStoreVars, aiAutoGenerate, clientVars >>

(***************************************************************************)
(* services/openai: configuration, the minimum-interval gate and the       *)
(* retry loop.  An error is {message, status}; NoStatus is the undefined   *)
(* status of a network failure and of the errors the client throws itself. *)
(***************************************************************************)
maxRetries == 3
retryDelay == 1000
MIN_TIME_BETWEEN_CALLS == 2000

NoStatus == 0
Statuses == {401, 403, 429, 404, 500, NoStatus}
Error(message, status) == [message |-> message, status |-> status, seconds |-> 0]
WaitError(waitTime) ==
  [message |-> "Please wait N seconds before making another request to avoid rate limits.",
   status |-> NoStatus, seconds |-> waitTime]
\* the error the SDK throws for a failed request
SdkError(status) ==
  Error(IF status = NoStatus THEN "Connection error." ELSE "SDK error", status)
NoError == Error(Null, NoStatus)

\* canMakeApiCall at time t: whether it returns, the seconds of its error
\* message, and lastApiCallTime afterwards
canMakeApiCall(t, last) ==
  LET timeSinceLastCall == t - last
  IN IF timeSinceLastCall < MIN_TIME_BETWEEN_CALLS
     THEN [ok |-> FALSE,
           \* Math.ceil((MIN_TIME_BETWEEN_CALLS - timeSinceLastCall) / 1000)
           waitTime |-> (MIN_TIME_BETWEEN_CALLS - timeSinceLastCall + 999) \div 1000,
           last |-> last]
     ELSE [ok |-> TRUE, waitTime |-> 0, last |-> t]

\* a delay that does not grow with the attempt
backoffDelayConstant(i) == retryDelay

\* OPENAI_CONFIG.retryDelay * Math.pow(2, i)
backoffDelay(i) == retryDelay * 2 ^ i

\* a retry loop that rethrows only after the last attempt
retryWithBackoffRetryingAll(i, status, retries) ==
  IF i = retries - 1 THEN [throw |-> TRUE, delay |-> 0]
  ELSE [throw |-> FALSE, delay |-> backoffDelay(i)]

\* the catch block of retryWithBackoff after attempt i failed with status:
\* rethrow, or wait delay ms and go round the loop
retryWithBackoff(i, status, retries) ==
  IF status = 401 \/ status = 403 THEN [throw |-> TRUE, delay |-> 0]
  ELSE IF status = 429 THEN [throw |-> TRUE, delay |-> 0]
  ELSE IF status >= 400 /\ status < 500 THEN [throw |-> TRUE, delay |-> 0]
  ELSE IF i = retries - 1 THEN [throw |-> TRUE, delay |-> 0]
  ELSE [throw |-> FALSE, delay |-> backoffDelay(i)]

\* What the three client functions put of the dataset into the prompt of
\* their request.  prepareDataForAI samples the rows; the prompt lists the
\* columns it returns and prints the first rows of the sample as JSON,
\* every row with all of its keys.
maxDataRows == 100
maxColumns == 20
\* {sample, statistics, columns}: the statistics are counts and are not
\* carried
prepareDataForAI(data, columns, maxRows) ==
  IF NoRows(data) THEN [sample |-> << >>, columns |-> << >>]
  ELSE [sample |-> SubSeq(data.rows, 1, Min2(maxRows, length(data))),
        columns |-> [j \in DOMAIN columns |->
                       [name |-> columns[j].name, type |-> columns[j].type]]]

NoPrompt == [sent |-> FALSE, columns |-> << >>, rows |-> << >>]
Prompt(columns, rows) == [sent |-> TRUE, columns |-> columns, rows |-> rows]
firstOf(sample, n) == SubSeq(sample, 1, Min2(n, Len(sample)))
\* the dataset content of the prompt of fn, NoPrompt when fn throws before
\* it builds one
promptOf(fn, data, columns) ==
  IF NoRows(data) \/ Len(columns) = 0 THEN NoPrompt
  ELSE CASE fn = "analyzeData" ->
              LET prepared == prepareDataForAI(data, columns, maxDataRows)
              IN Prompt(prepared.columns, firstOf(prepared.sample, 10))
         [] fn = "suggestChartWithAI" ->
              LET prepared == prepareDataForAI(data, columns, 50)
              IN Prompt(prepared.columns, firstOf(prepared.sample, 5))
         [] OTHER ->   \* answerQuestion
              LET prepared == prepareDataForAI(data, columns, 50)
              IN Prompt(prepared.columns, firstOf(prepared.sample, 10))

\* the catch blocks of the three client functions
analyzeDataCatch(error) ==
  IF error.status = 401
  THEN Error("Invalid OpenAI API key. Please check your configuration.", NoStatus)
  ELSE IF error.status = 429
  THEN Error("Rate limit exceeded. Please try again in a few moments.", NoStatus)
  ELSE IF error.status = 500 \/ error.status = 503
  THEN Error("OpenAI service is temporarily unavailable. Please try again later.", NoStatus)
  ELSE Error(error.message, NoStatus)
otherCatch(error) == Error(error.message, NoStatus)

\* an error handler that yields no message
handleOpenAIErrorSilent(error) == Null

\* aiHelpers.handleOpenAIError on the messages of the model
handleOpenAIError(error) ==
  IF error.message = "Invalid OpenAI API key. Please check your configuration."
     \/ error.status = 401
  THEN "Invalid API key. Please check your OpenAI API key in Settings."
  ELSE IF error.status = 429 \/ error.seconds > 0   \* message includes 'rate limit'
  THEN "Rate limit exceeded. Please wait a few moments and try again."
  ELSE IF error.message = "Unexpected token in JSON"  \* message includes 'token'
  THEN "Data is too large. Try with a smaller dataset or fewer columns."
  ELSE IF error.status = 500 \/ error.status = 503
  THEN "OpenAI service is temporarily unavailable. Please try again later."
  ELSE error.message

(***************************************************************************)
(* utils/aiHelpers: the response cache.  A key is the object that          *)
(* generateCacheKey serialises (JSON.stringify and btoa are injective on   *)
(* it); cache maps a key to NoEntry or to {data, timestamp}.               *)
(***************************************************************************)
generateCacheKey(data, columns) ==
  [rowCount |-> length(data),
   columnCount |-> Len(columns),
   columnNames |-> {columns[i].name : i \in DOMAIN columns},
   firstRowHash |-> data.rows[1]]

CacheKeys == {generateCacheKey(d, inferColumnTypes(d)) : d \in Datasets}
NoEntry == [timestamp |-> -1]

\* a lookup that returns whatever is stored
getCachedResponseNeverExpiring(c, key, t) ==
  [data |-> IF c[key] = NoEntry THEN NoEntry ELSE c[key].data, cache |-> c]

\* getCachedResponse at time t: the value returned (NoEntry for null) and
\* the cache afterwards
getCachedResponse(c, key, t) ==
  LET cached == c[key]
  IN IF cached = NoEntry THEN [data |-> NoEntry, cache |-> c]
     ELSE IF t - cached.timestamp > 30 * 60 * 1000
     THEN [data |-> NoEntry, cache |-> [c EXCEPT ![key] = NoEntry]]
     ELSE [data |-> cached.data, cache |-> c]

setCachedResponse(c, key, data, t) ==
  [c EXCEPT ![key] = [data |-> data, timestamp |-> t]]

(***************************************************************************)
(* Calls of the AI client.  A call that has passed the synchronous part of *)
(* its function is a record: the arguments it was made with, the retry     *)
(* loop's index i, whether it awaits the endpoint ("request") or the       *)
(* backoff timer ("delay"), and what it has done so far (invoked: number   *)
(* of endpoint invocations, waits: the delays slept, seen: the responses   *)
(* received).  live: the component instance awaiting it is still mounted.  *)
(***************************************************************************)
MaxSuggestCalls == 1

\* What the endpoint answers: a failure with a status, or a completion
\* whose content is a JSON object with insights ("insights"), a JSON object
\* with no insights ("empty"), or text that is not JSON ("text").
Response(status, body) == [status |-> status, body |-> body]
Completion(body) == Response(200, body)
Failure(status) == Response(status, "none")
Responses == {Completion(b) : b \in {"insights", "empty", "text"}}
               \cup {Failure(st) : st \in Statuses}

NewCall(fn, data, columns, early) ==
  [fn |-> fn, live |-> TRUE, data |-> data, columns |-> columns, i |-> 0,
   phase |-> "request", wakeAt |-> 0, invoked |-> 1, waits |-> << >>,
   seen |-> << >>, early |-> early]

hasColumns(columns) == columns # UndefinedColumns /\ Len(columns.cols) > 0

\* an analysis that validates its arguments before it asks the gate
analyzeDataValidatingFirst(data, columns, t, last) ==
  LET invalid == NoRows(data) \/ ~hasColumns(columns)
      gate == IF invalid THEN [ok |-> TRUE, waitTime |-> 0, last |-> last]
              ELSE canMakeApiCall(t, last)
  IN [gated |-> TRUE, gateOk |-> gate.ok, waitTime |-> gate.waitTime, last |-> gate.last,
      thrown |-> IF NoRows(data) THEN Error("No data to analyze", NoStatus)
                 ELSE IF ~hasColumns(columns)
                      THEN Error("No columns information provided", NoStatus)
                 ELSE IF ~gate.ok THEN WaitError(gate.waitTime)
                 ELSE NoError]

\* an analysis that sends its request whatever the gate says
analyzeDataPassingGate(data, columns, t, last) ==
  LET gate == canMakeApiCall(t, last)
  IN [gated |-> TRUE, gateOk |-> gate.ok, waitTime |-> gate.waitTime, last |-> gate.last,
      thrown |-> IF NoRows(data) THEN Error("No data to analyze", NoStatus)
                 ELSE IF ~hasColumns(columns)
                      THEN Error("No columns information provided", NoStatus)
                 ELSE NoError]

\* The synchronous part of the three functions at time t: the error thrown
\* before any request (NoError when the request is sent), whether the gate
\* was consulted and rejected, and lastApiCallTime afterwards.
analyzeData(data, columns, t, last) ==
  LET gate == canMakeApiCall(t, last)
  IN [gated |-> TRUE, gateOk |-> gate.ok, waitTime |-> gate.waitTime, last |-> gate.last,
      thrown |-> IF ~gate.ok THEN WaitError(gate.waitTime)
                 ELSE IF NoRows(data) THEN Error("No data to analyze", NoStatus)
                 ELSE IF ~hasColumns(columns)
                      THEN Error("No columns information provided", NoStatus)
                 ELSE NoError]

suggestChartWithAI(data, columns, t, last) ==
  [gated |-> FALSE, gateOk |-> TRUE, waitTime |-> 0, last |-> last,
   thrown |-> IF NoRows(data) \/ ~hasColumns(columns)
              THEN Error("No data or columns provided", NoStatus)
              ELSE NoError]

answerQuestion(question, data, columns, t, last) ==
  [gated |-> FALSE, gateOk |-> TRUE, waitTime |-> 0, last |-> last,
   thrown |-> IF trim(question) = "" THEN Error("No question provided", NoStatus)
              ELSE IF NoRows(data)
                   THEN Error("No data available to answer questions", NoStatus)
              ELSE IF columns = UndefinedColumns   \* columns.length of undefined
                   THEN Error("TypeError", NoStatus)
              ELSE NoError]

\* observation of the latest attempt to obtain AI output: what the gate did
\* with the call of the client ("none": the function has no gate; "cached":
\* the page took the insights from the cache and made no call), and the
\* time of the latest call whose request was sent (acceptedAt)
noteCall(issue) ==
  [gate |-> IF ~issue.gated THEN "none" ELSE IF issue.gateOk THEN "accepted" ELSE "rejected",
   acceptedAt |-> IF issue.thrown = NoError THEN now ELSE lastCall.acceptedAt]

\* the call comes less than the minimum interval after the previous call
\* that the client accepted
early == now - lastCall.acceptedAt < MIN_TIME_BETWEEN_CALLS

NoCallYet == [gate |-> "none", acceptedAt |-> 0]

\* the component awaiting the calls of fn unmounts
unmounted(pending, fn) ==
  [k \in DOMAIN pending |->
     IF pending[k].fn = fn THEN [pending[k] EXCEPT !.live = FALSE] ELSE pending[k]]

(***************************************************************************)
(* AIInsightsPage.                                                         *)
(***************************************************************************)
insightsShown == currentPage = "insights" /\ ~NoRows(csvData) /\ configured

\* the body of handleGenerateInsights for the csvData and dataColumns of its
\* closure, up to `await analyzeData(...)` or, when analyzeData throws at
\* once, to the end of the handler; cacheNow and pending are the cache and
\* the calls it starts from
generateInsights(data, columns, cacheNow, pending) ==
  /\ cache' = cacheNow
  /\ aiInsights' = aiInsights
  /\ IF NoRows(data)
     THEN /\ aiInsightsError' = "No data uploaded. Please upload a CSV file first."
          /\ calls' = pending
          /\ UNCHANGED << aiInsightsLoading, lastApiCallTime, lastCall >>
     ELSE IF ~configured
     THEN /\ aiInsightsError' = "OpenAI is not configured"
          /\ calls' = pending
          /\ UNCHANGED << aiInsightsLoading, lastApiCallTime, lastCall >>
     ELSE LET issue == analyzeData(data, columns, now, lastApiCallTime)
              note == noteCall(issue)
          IN /\ lastApiCallTime' = issue.last
             /\ lastCall' = note
             /\ IF issue.thrown # NoError
                THEN /\ aiInsightsError' = handleOpenAIError(issue.thrown)
                     /\ aiInsightsLoading' = FALSE
                     /\ calls' = pending
                ELSE /\ aiInsightsError' = Null
                     /\ aiInsightsLoading' = TRUE
                     /\ calls' = Append(pending,
                                   NewCall("analyzeData", data, columns, early))

\* an effect that generates without looking in the cache
autoGenerateEffectWithoutCache(runs, data, columns, auto, pending) ==
  IF /\ runs /\ ~NoRows(data) /\ hasColumns(columns) /\ configured /\ auto
     /\ aiInsights = << >> /\ ~aiInsightsLoading
  THEN generateInsights(data, columns, cache, pending)
  ELSE /\ calls' = pending
       /\ UNCHANGED << insightVars, lastApiCallTime, cache, lastCall >>

\* the auto-generate effect, run after a render in which the page is mounted
\* (runs) with the given csvData, dataColumns and aiAutoGenerate
autoGenerateEffect(runs, data, columns, auto, pending) ==
  IF /\ runs /\ ~NoRows(data) /\ hasColumns(columns) /\ configured /\ auto
     /\ aiInsights = << >> /\ ~aiInsightsLoading
  THEN LET cacheKey == generateCacheKey(data, columns.cols)
           got == getCachedResponse(cache, cacheKey, now)
       IN /\ IF got.data # NoEntry
             THEN /\ aiInsights' = got.data.insights
                  /\ cache' = got.cache
                  /\ calls' = pending
                  /\ lastCall' = [lastCall EXCEPT !.gate = "cached"]
                  /\ UNCHANGED << aiInsightsLoading, aiInsightsError,
                                  lastApiCallTime >>
             ELSE generateInsights(data, columns, got.cache, pending)
  ELSE /\ calls' = pending
       /\ UNCHANGED << insightVars, lastApiCallTime, cache, lastCall >>

\* a click on Generate/Regenerate (disabled while aiInsightsLoading) or on
\* the retry button of the error panel (shown while aiInsightsError is set)
handleGenerateInsights ==
  /\ UNCHANGED << pureVars, exportVars >>
  /\ insightsShown
  /\ ~aiInsightsLoading \/ aiInsightsError # Null
  /\ generateInsights(csvData, dataColumns, cache, calls)
  /\ UNCHANGED << now, configured, currentPage, dataVars, uploadVars, chartVars,
                  chatVars, aiAutoGenerate, suggestVars,
                  completedAnalyses >>

Message(role, content) == [role |-> role, content |-> content]
\* store action addChatMessage (id and timestamp of a message are not carried)
addChatMessage(messages, message) == Append(messages, message)

\* handleAskQuestion for a non-blank chat input, up to `await answerQuestion`
handleAskQuestion ==
  /\ UNCHANGED << pureVars, exportVars >>
  /\ insightsShown
  /\ ~aiChatLoading
  /\ Len(aiChatMessages) + 2 <= MaxChat
  /\ LET issue == answerQuestion("question", csvData, dataColumns, now, lastApiCallTime)
         note == noteCall(issue)
         asked == addChatMessage(aiChatMessages, Message("user", "question"))
     IN /\ lastCall' = note
        /\ lastApiCallTime' = issue.last
        /\ IF issue.thrown # NoError
           THEN /\ aiChatMessages' = addChatMessage(asked,
                       Message("assistant", handleOpenAIError(otherCatch(issue.thrown))))
                /\ aiChatLoading' = FALSE
                /\ calls' = calls
           ELSE /\ aiChatMessages' = asked
                /\ aiChatLoading' = TRUE
                /\ calls' = Append(calls,
                              NewCall("answerQuestion", csvData, dataColumns, early))
  /\ UNCHANGED << now, configured, currentPage, dataVars, uploadVars, chartVars,
                  insightVars, aiAutoGenerate, suggestVars, cache, completedAnalyses >>

clearChatMessages ==
  /\ UNCHANGED << pureVars, exportVars >>
  /\ insightsShown
  /\ aiChatMessages # << >>
  /\ aiChatMessages' = << >>
  /\ UNCHANGED << now, configured, currentPage, dataVars, uploadVars, chartVars,
                  insightVars, aiChatLoading, aiAutoGenerate, clientVars >>

\* store action setAiAutoGenerate, and the effect it triggers on the page
setAiAutoGenerate(auto) ==
  /\ UNCHANGED << pureVars, exportVars >>
  /\ aiAutoGenerate # auto
  /\ aiAutoGenerate' = auto
  /\ autoGenerateEffect(currentPage = "insights", csvData, dataColumns, auto, calls)
  /\ UNCHANGED << now, configured, currentPage, dataVars, uploadVars, chartVars,
                  chatVars, suggestVars, completedAnalyses >>

(***************************************************************************)
(* ChartConfigurator.handleAiSuggest up to `await suggestChartWithAI`.     *)
(***************************************************************************)
handleAiSuggest ==
  /\ UNCHANGED << pureVars, exportVars >>
  /\ currentPage = "dashboard" /\ ~NoRows(csvData) /\ showConfigurator
  /\ ~aiLoading
  /\ Len(SelectSeq(calls, LAMBDA c : c.fn = "suggestChartWithAI")) < MaxSuggestCalls
  /\ IF ~configured
     THEN /\ aiError' = "OpenAI is not configured. Please add your API key in Settings."
          /\ UNCHANGED << aiLoading, aiSuggestions, calls, lastCall, lastApiCallTime >>
     ELSE LET issue == suggestChartWithAI(csvData, dataColumns, now, lastApiCallTime)
              note == noteCall(issue)
          IN /\ lastCall' = note
             /\ lastApiCallTime' = issue.last
             /\ aiSuggestions' = aiSuggestions
             /\ IF issue.thrown # NoError
                THEN /\ aiError' = handleOpenAIError(otherCatch(issue.thrown))
                     /\ aiLoading' = FALSE
                     /\ calls' = calls
                ELSE /\ aiError' = Null
                     /\ aiLoading' = TRUE
                     /\ calls' = Append(calls,
                                   NewCall("suggestChartWithAI", csvData, dataColumns,
                                           early))
  /\ UNCHANGED << now, configured, currentPage, dataVars, uploadVars, chartVars,
                  aiStoreVars, aiAutoGenerate, cache,
                  completedAnalyses >>

(***************************************************************************)
(* The completion endpoint answers call k, and the rest of the awaiting    *)
(* code runs: retryWithBackoff's catch, then (when the loop returns or     *)
(* rethrows) the rest of the client function and of the page's handler.    *)
(***************************************************************************)
Insights(data) == << [dataset |-> data] >>

\* the object handleGenerateInsights stores and caches for a completion
resultData(c, response) ==
  [insights |-> IF response.body = "insights" THEN Insights(c.data) ELSE << >>]

\* how the client function settles once retryWithBackoff has returned the
\* response (failed = FALSE) or rethrown the error of a failed request
settlement(c, response, failed) ==
  IF failed
  THEN [outcome |-> "rejected",
        error |-> IF c.fn = "analyzeData" THEN analyzeDataCatch(SdkError(response.status))
                  ELSE otherCatch(SdkError(response.status))]
  ELSE IF c.fn # "answerQuestion" /\ response.body = "text"   \* JSON.parse throws
  THEN [outcome |-> "rejected",
        error |-> IF c.fn = "analyzeData"
                  THEN analyzeDataCatch(Error("Unexpected token in JSON", NoStatus))
                  ELSE otherCatch(Error("Unexpected token in JSON", NoStatus))]
  ELSE [outcome |-> "resolved", error |-> NoError, data |-> resultData(c, response)]

\* handlers that reset their loading flag at the end of the try block
settledWithoutFinally(c, s) ==
  CASE c.fn = "analyzeData" ->
            /\ IF s.outcome = "resolved"
               THEN /\ aiInsights' = s.data.insights
                    /\ aiInsightsError' = aiInsightsError
                    /\ cache' = setCachedResponse(cache,
                                   generateCacheKey(c.data, c.columns.cols),
                                   s.data, now)
                    /\ completedAnalyses' = completedAnalyses \cup {s.data}
                    /\ aiInsightsLoading' = FALSE
               ELSE /\ aiInsightsError' = handleOpenAIError(s.error)
                    /\ UNCHANGED << aiInsights, cache, completedAnalyses,
                                    aiInsightsLoading >>
            /\ UNCHANGED << chatVars, suggestVars >>
       [] c.fn = "answerQuestion" ->
            /\ aiChatMessages' = addChatMessage(aiChatMessages,
                  IF s.outcome = "resolved" THEN Message("assistant", "answer")
                  ELSE Message("assistant", handleOpenAIError(s.error)))
            /\ aiChatLoading' = (s.outcome # "resolved")
            /\ UNCHANGED << insightVars, suggestVars, cache, completedAnalyses >>
       [] c.fn = "suggestChartWithAI" ->
            /\ UNCHANGED suggestVars
            /\ UNCHANGED << insightVars, chatVars, cache, completedAnalyses >>

\* the rest of handleGenerateInsights / handleAskQuestion / handleAiSuggest
settled(c, s) ==
  CASE c.fn = "analyzeData" ->
            /\ IF s.outcome = "resolved"
               THEN /\ aiInsights' = s.data.insights
                    /\ aiInsightsError' = aiInsightsError
                    /\ cache' = setCachedResponse(cache,
                                   generateCacheKey(c.data, c.columns.cols),
                                   s.data, now)
                    /\ completedAnalyses' = completedAnalyses \cup {s.data}
               ELSE /\ aiInsightsError' = handleOpenAIError(s.error)
                    /\ UNCHANGED << aiInsights, cache, completedAnalyses >>
            /\ aiInsightsLoading' = FALSE
            /\ UNCHANGED << chatVars, suggestVars >>
       [] c.fn = "answerQuestion" ->
            /\ aiChatMessages' = addChatMessage(aiChatMessages,
                  IF s.outcome = "resolved" THEN Message("assistant", "answer")
                  ELSE Message("assistant", handleOpenAIError(s.error)))
            /\ aiChatLoading' = FALSE
            /\ UNCHANGED << insightVars, suggestVars, cache, completedAnalyses >>
       [] c.fn = "suggestChartWithAI" ->
            /\ IF c.live
               THEN /\ aiSuggestions' = IF s.outcome = "resolved" THEN << "suggestions" >>
                                        ELSE aiSuggestions
                    /\ aiError' = IF s.outcome = "resolved" THEN aiError
                                  ELSE handleOpenAIError(s.error)
                    /\ aiLoading' = FALSE
               ELSE UNCHANGED suggestVars
            /\ UNCHANGED << insightVars, chatVars, cache, completedAnalyses >>

endpointResponds(k, response) ==
  LET c == calls[k]
      failed == response.status # 200
      retry == retryWithBackoff(c.i, response.status, maxRetries)
      c2 == [c EXCEPT !.seen = Append(c.seen, response)]
  IN /\ UNCHANGED << pureVars, exportVars >>
     /\ c.phase = "request"
     /\ IF failed /\ ~retry.throw
        THEN /\ calls' = [calls EXCEPT ![k] =
                            [c2 EXCEPT !.phase = "delay",
                                       !.wakeAt = now + retry.delay,
                                       !.waits = Append(c.waits, retry.delay)]]
             /\ UNCHANGED << aiStoreVars, suggestVars, cache,
                             completedAnalyses >>
        ELSE /\ calls' = RemoveAt(calls, k)
             /\ settled(c2, settlement(c2, response, failed))
     /\ UNCHANGED << now, configured, currentPage, dataVars, uploadVars, chartVars,
                     aiAutoGenerate, lastApiCallTime, lastCall >>

\* the backoff timer of call k fires: the loop goes round and calls fn()
backoffElapsed(k) ==
  LET c == calls[k]
  IN /\ UNCHANGED << pureVars, exportVars >>
     /\ c.phase = "delay"
     /\ now >= c.wakeAt
     /\ c.i + 1 < maxRetries
     /\ calls' = [calls EXCEPT ![k] = [c EXCEPT !.i = c.i + 1, !.phase = "request",
                                                !.invoked = c.invoked + 1]]
     /\ UNCHANGED << now, configured, currentPage, dataVars, uploadVars, chartVars,
                     aiStoreVars, aiAutoGenerate, suggestVars, lastApiCallTime, cache,
                     ghostVars >>

(***************************************************************************)
(* UploadDataPage.  parsing holds the parseCSVFile promises that have not  *)
(* settled; live tells whether the component instance that awaits the      *)
(* promise is still mounted (React drops the state updates of an unmounted *)
(* instance, the store updates are made all the same).                     *)
(***************************************************************************)
MaxParsing == 1

handleFile(file) ==
  /\ UNCHANGED << pureVars, exportVars >>
  /\ currentPage = "upload"
  /\ processingError' =
        IF ~typeIncludesCsv(file.type) /\ ~nameEndsWithCsv(file.name)
        THEN "Invalid file type. Please upload a CSV file."
        ELSE IF file.size > MaxFileSize
        THEN "File is too large. Maximum size is 10MB."
        ELSE Null
  /\ processingResults' = NoResults
  /\ showPreview' = FALSE
  /\ uploadedFile' = IF processingError' = Null THEN file ELSE uploadedFile
  /\ UNCHANGED << now, configured, currentPage, dataVars, isProcessing, parsing,
                  uploadError, chartVars, aiStoreVars, aiAutoGenerate, clientVars >>

removeFile ==
  /\ UNCHANGED << pureVars, exportVars >>
  /\ currentPage = "upload"
  /\ uploadedFile # NoFile
  /\ uploadedFile' = NoFile
  /\ processingError' = Null
  /\ processingResults' = NoResults
  /\ showPreview' = FALSE
  /\ UNCHANGED << now, configured, currentPage, dataVars, isProcessing, parsing,
                  uploadError, chartVars, aiStoreVars, aiAutoGenerate, clientVars >>

\* the Show/Hide Preview button, rendered once there are results
togglePreview ==
  /\ UNCHANGED << pureVars, exportVars >>
  /\ currentPage = "upload"
  /\ processingResults # NoResults
  /\ showPreview' = ~showPreview
  /\ UNCHANGED << now, configured, currentPage, dataVars, uploadedFile, isProcessing,
                  processingError, processingResults, parsing, uploadError,
                  chartVars, aiStoreVars, aiAutoGenerate, clientVars >>

\* the warnings the DataStats element of the page renders
DataStats(validation) ==
  IF ~validation.valid /\ Len(validation.warnings) > 0 THEN validation.warnings ELSE << >>
warningsDisplayed ==
  IF currentPage = "upload" /\ processingResults # NoResults /\ showPreview
  THEN DataStats(processingResults.validation) ELSE << >>

\* processFile up to `await parseCSVFile(uploadedFile)`
processFile ==
  /\ UNCHANGED << pureVars, exportVars >>
  /\ currentPage = "upload"
  /\ uploadedFile # NoFile /\ processingResults = NoResults /\ ~isProcessing
  /\ Len(parsing) < MaxParsing
  /\ isProcessing' = TRUE
  /\ processingError' = Null
  /\ parsing' = Append(parsing, [file |-> uploadedFile, live |-> TRUE])
  /\ UNCHANGED << now, configured, currentPage, dataVars, uploadedFile,
                  processingResults, showPreview, uploadError, chartVars, aiStoreVars,
                  aiAutoGenerate, clientVars >>

\* a processFile that derives columns and summary from the first row
processedFromFirstRow ==
  [file \in Files |->
     LET parseResult == parseCSVFile(file)
         data == parseResult.data
         thrown == IF parseResult.settled = "rejected" THEN parseResult.message
                   ELSE IF parseResult.errors > 0 THEN "CSV parsing failed"
                   ELSE IF NoRows(data) THEN "CSV file is empty or contains no valid data"
                   ELSE Null
         first == [data EXCEPT !.rows = << data.rows[1] >>]
     IN IF thrown = Null
        THEN [thrown |-> Null, data |-> data, validation |-> validateCSV(data),
              columns |-> inferColumnTypes(first), summary |-> getDataSummary(first)]
        ELSE [thrown |-> thrown, data |-> data]]

\* processFile from the settling of parseCSVFile(file) to the values it
\* stores: the message of the error thrown, or the data with its validation,
\* columns and summary
processed ==
  [file \in Files |->
     LET parseResult == parseCSVFile(file)
         data == parseResult.data
         thrown == IF parseResult.settled = "rejected" THEN parseResult.message
                   ELSE IF parseResult.errors > 0 THEN "CSV parsing failed"
                   ELSE IF NoRows(data) THEN "CSV file is empty or contains no valid data"
                   ELSE Null
     IN IF thrown = Null
        THEN [thrown |-> Null, data |-> data, validation |-> validateCSV(data),
              columns |-> inferColumnTypes(data), summary |-> getDataSummary(data)]
        ELSE [thrown |-> thrown, data |-> data]]

\* the rest of processFile, run when the promise settles
processFileSettled(i) ==
  LET p == parsing[i]
      data == processed[p.file].data
      thrown == processed[p.file].thrown
      validation == processed[p.file].validation
      columns == processed[p.file].columns
      summary == processed[p.file].summary
  IN /\ UNCHANGED << pureVars, exportVars >>
     /\ parsing' = RemoveAt(parsing, i)
     /\ IF thrown = Null
        THEN /\ csvData' = data
             /\ dataColumns' = Columns(columns)
             /\ dataStats' = summary
             /\ uploadError' = uploadError
             /\ processingResults' =
                  IF p.live THEN [validation |-> validation, fileName |-> p.file.name]
                  ELSE processingResults
             /\ showPreview' = IF p.live THEN TRUE ELSE showPreview
             /\ processingError' = processingError
        ELSE /\ UNCHANGED dataVars
             /\ uploadError' = thrown
             /\ processingError' = IF p.live THEN thrown ELSE processingError
             /\ processingResults' = processingResults
             /\ showPreview' = showPreview
     /\ isProcessing' = IF p.live THEN FALSE ELSE isProcessing
     \* the store update re-renders a mounted AI Insights page
     /\ autoGenerateEffect(thrown = Null /\ currentPage = "insights",
                           data, Columns(columns), aiAutoGenerate, calls)
     /\ UNCHANGED << now, configured, currentPage, uploadedFile, chartVars,
                     chatVars, aiAutoGenerate, suggestVars,
                     completedAnalyses >>

(***************************************************************************)
(* DashboardPage and ChartConfigurator.  The selections the user has made  *)
(* in the configurator when Save is clicked are an input of handleSave.    *)
(***************************************************************************)
Selections(chartType, x, y, cat, val, agg) ==
  [chartType |-> chartType, xColumn |-> x, yColumn |-> y, categoryColumn |-> cat,
   valueColumn |-> val, nameColumn |-> "", aggregation |-> agg, topN |-> 10,
   title |-> ""]

ConfiguratorInputs ==
  { Selections("bar", "region", "sales", "", "", "sum"),
    Selections("bar", "region", "profit", "", "", NonString),
    Selections("pie", "region", "sales", "region", "", "sum"),
    Selections("scatter", "sales", "sales", "", "", "sum"),
    Selections("bar", "region", "", "", "", "sum"),
    Selections("area", "region", "sales", "", "", "sum") }

\* suggestion.f: undefined when the suggestion has no property f
property(suggestion, f) == IF f \in DOMAIN suggestion THEN suggestion[f] ELSE Undefined
\* value || ''
orEmpty(value) == IF Falsy(value) THEN "" ELSE value

\* ChartConfigurator.handleAutoSuggest: the selections after a click on
\* Quick Suggest, from the selections before it and the columns prop; the
\* generated title is kept as "suggested"
handleAutoSuggest(selections, columns) ==
  LET suggestion == suggestChartType(columns, Undefined, Undefined)
      x == property(suggestion, "xColumn")
      y == property(suggestion, "yColumn")
      pie == suggestion.chartType = "pie"
  IN \* setChartType(null) leaves `chartType` null: the hook sees no chart type
     [selections EXCEPT
        !.chartType = suggestion.chartType,
        !.categoryColumn = IF pie THEN orEmpty(x) ELSE @,
        !.valueColumn = IF pie THEN orEmpty(y) ELSE @,
        !.xColumn = IF pie THEN @ ELSE orEmpty(x),
        !.yColumn = IF pie THEN @ ELSE orEmpty(y),
        !.aggregation = IF Falsy(property(suggestion, "aggregation")) THEN @
                        ELSE suggestion.aggregation,
        !.title = IF ~Falsy(x) /\ ~Falsy(y) THEN "suggested" ELSE @]

\* the object handleSave builds; topN: undefined is kept as 0
savedConfig(id, c) ==
  LET pie == c.chartType = "pie"
  IN [id |-> id, chartType |-> c.chartType,
      xColumn |-> IF pie THEN Undefined ELSE c.xColumn,
      yColumn |-> IF pie THEN Undefined ELSE c.yColumn,
      categoryColumn |-> IF pie THEN c.categoryColumn ELSE Undefined,
      valueColumn |-> IF pie THEN c.valueColumn ELSE Undefined,
      nameColumn |-> IF c.chartType = "scatter" THEN c.nameColumn ELSE Undefined,
      aggregation |-> IF c.chartType # "scatter" THEN c.aggregation ELSE Undefined,
      topN |-> IF pie THEN c.topN ELSE 0,
      title |-> IF c.title = "" THEN "Untitled Chart" ELSE c.title]

\* store actions
addChartConfig(configs, config) == Append(configs, config)
\* an update whose test `config.id = id` assigns instead of comparing
updateChartConfigAssigningId(configs, id, updatedConfig) ==
  [i \in DOMAIN configs |-> updatedConfig @@ [configs[i] EXCEPT !.id = id]]
updateChartConfig(configs, id, updatedConfig) ==
  [i \in DOMAIN configs |->
     IF configs[i].id = id THEN updatedConfig @@ configs[i] ELSE configs[i]]
removeChartConfig(configs, id) ==
  SelectSeq(configs, LAMBDA config : config.id # id)

dashboardShown == currentPage = "dashboard" /\ ~NoRows(csvData)

\* the configurator's local AI state goes with the instance; the promise
\* of a suggestChartWithAI call it awaits stays pending
configuratorUnmounts ==
  /\ aiLoading' = FALSE
  /\ aiError' = Null
  /\ aiSuggestions' = << >>
  /\ calls' = unmounted(calls, "suggestChartWithAI")

handleAddChart ==
  /\ UNCHANGED << pureVars, exportVars >>
  /\ dashboardShown /\ ~showConfigurator
  /\ editingChart' = NullConfig
  /\ showConfigurator' = TRUE
  /\ UNCHANGED << now, configured, currentPage, dataVars, uploadVars, chartConfigs,
                  rendered, aiStoreVars, aiAutoGenerate, clientVars >>

handleEditChart(i) ==
  /\ UNCHANGED << pureVars, exportVars >>
  /\ dashboardShown /\ ~showConfigurator
  /\ editingChart' = chartConfigs[i]
  /\ showConfigurator' = TRUE
  /\ UNCHANGED << now, configured, currentPage, dataVars, uploadVars, chartConfigs,
                  rendered, aiStoreVars, aiAutoGenerate, clientVars >>

onCancel ==
  /\ UNCHANGED << pureVars, exportVars >>
  /\ dashboardShown /\ showConfigurator
  /\ showConfigurator' = FALSE
  /\ editingChart' = NullConfig
  /\ configuratorUnmounts
  /\ UNCHANGED << now, configured, currentPage, dataVars, uploadVars, chartConfigs,
                  rendered, aiStoreVars, aiAutoGenerate, lastApiCallTime,
                  cache, ghostVars >>

\* ChartConfigurator.handleSave, and DashboardPage.handleSaveChart as onSave
handleSave(selections) ==
  LET hook == useChartData(csvData, selections)
      id == IF editingChart = NullConfig THEN now ELSE editingChart.id
      config == savedConfig(id, selections)
  IN /\ UNCHANGED << pureVars, exportVars >>
     /\ dashboardShown /\ showConfigurator
     /\ IF ~hook.isValid
        THEN UNCHANGED << chartConfigs, showConfigurator, editingChart,
                          suggestVars, calls >>
        ELSE /\ editingChart = NullConfig => Len(chartConfigs) < MaxCharts
             /\ chartConfigs' =
                  IF editingChart # NullConfig
                  THEN updateChartConfig(chartConfigs, editingChart.id, config)
                  ELSE addChartConfig(chartConfigs, config)
             /\ showConfigurator' = FALSE
             /\ editingChart' = NullConfig
             /\ configuratorUnmounts
     /\ UNCHANGED << now, configured, currentPage, dataVars, uploadVars, rendered,
                     aiStoreVars, aiAutoGenerate, lastApiCallTime, cache, ghostVars >>

handleDeleteChart(i) ==
  /\ UNCHANGED << pureVars, exportVars >>
  /\ dashboardShown /\ ~showConfigurator
  /\ chartConfigs' = removeChartConfig(chartConfigs, chartConfigs[i].id)
  /\ UNCHANGED << now, configured, currentPage, dataVars, uploadVars,
                  showConfigurator, editingChart, rendered,
                  aiStoreVars, aiAutoGenerate, clientVars >>

\* ChartGrid.ChartCard rendering the i-th configuration of the store
ChartCard(i) ==
  /\ UNCHANGED << pureVars, exportVars >>
  /\ dashboardShown
  /\ rendered' = [id |-> chartConfigs[i].id] @@ useChartData(csvData, chartConfigs[i])
  /\ rendered' # rendered
  /\ UNCHANGED << now, configured, currentPage, dataVars, uploadVars, chartConfigs,
                  showConfigurator, editingChart, aiStoreVars,
                  aiAutoGenerate, clientVars >>

(***************************************************************************)
(* ExportModal.  The modal is mounted by App on every page but the        *)
(* landing page and renders under showExportModal, over a backdrop that    *)
(* covers the page.  A helper of exportHelpers returns {success, message}  *)
(* or, when serialising or the download fails, {success: false, error};    *)
(* which of the two is the environment's.                                  *)
(***************************************************************************)
MaxCloseTimers == 1

Formats == {"PDF", "CSV", "Excel", "JSON"}
ExportOk(format) == [success |-> TRUE, message |-> format]
ExportFailed == [success |-> FALSE, error |-> "export failed"]
ExportResults(format) == {ExportOk(format), ExportFailed}
Status(type, message) == [type |-> type, message |-> message]

\* the page's controls are reachable while the modal is not shown
Behind(A) == ~showExportModal /\ A

\* the control that opens the modal
openExportModal ==
  /\ currentPage # "landing"
  /\ ~showExportModal
  /\ showExportModal' = TRUE
  /\ UNCHANGED << programData, exportStatus, isExporting, selectedFormat, closeTimers,
                  pureVars >>

\* backdrop, close and cancel buttons
closeExportModal ==
  /\ showExportModal /\ ~isExporting
  /\ showExportModal' = FALSE
  /\ UNCHANGED << programData, exportStatus, isExporting, selectedFormat, closeTimers,
                  pureVars >>

\* handleExport from `if (result.success)` to the end of finally
exported(result) ==
  /\ isExporting' = FALSE
  /\ IF result.success
     THEN /\ exportStatus' = Status("success", result.message)
          /\ closeTimers' = closeTimers + 1
     ELSE /\ exportStatus' = Status("error", result.error)
          /\ closeTimers' = closeTimers

\* handleExport: the whole handler for the synchronous helpers, and up to
\* `await exportToPDF(exportData)` for PDF
handleExport(format, result) ==
  /\ showExportModal /\ ~isExporting
  /\ closeTimers < MaxCloseTimers
  /\ IF NoRows(csvData)
     THEN /\ exportStatus' = Status("error", "No data to export. Please upload a CSV file first.")
          /\ UNCHANGED << isExporting, selectedFormat, closeTimers >>
     ELSE /\ selectedFormat' = format
          /\ IF format = "PDF"
             THEN /\ isExporting' = TRUE
                  /\ exportStatus' = NoExportStatus
                  /\ closeTimers' = closeTimers
             ELSE exported(result)
  /\ UNCHANGED << programData, showExportModal, pureVars >>

\* the promise of exportToPDF resolves
exportToPDFSettled(result) ==
  /\ isExporting
  /\ exported(result)
  /\ UNCHANGED << programData, showExportModal, selectedFormat, pureVars >>

\* the timer set after a successful export fires
closeTimerFires ==
  /\ closeTimers > 0
  /\ closeTimers' = closeTimers - 1
  /\ showExportModal' = FALSE
  /\ exportStatus' = NoExportStatus
  /\ selectedFormat' = Null
  /\ UNCHANGED << programData, isExporting, pureVars >>

(***************************************************************************)
(* Navigation: the landing page's button (to 'upload') and the sidebar.    *)
(* The page left unmounts (its useState values are dropped, the promises   *)
(* it awaits stay pending); the page entered mounts with initial state and *)
(* runs its effects.  The configurator is a full-screen modal over the     *)
(* sidebar, so the dashboard is left with the configurator closed.         *)
(***************************************************************************)
setCurrentPage(page) ==
  /\ UNCHANGED << pureVars, exportVars >>
  /\ page # currentPage
  /\ currentPage = "landing" => page = "upload"
  /\ currentPage = "dashboard" => ~showConfigurator
  /\ currentPage' = page
  /\ IF currentPage = "upload"
     THEN /\ uploadedFile' = NoFile
          /\ isProcessing' = FALSE
          /\ processingError' = Null
          /\ processingResults' = NoResults
          /\ showPreview' = FALSE
          /\ parsing' = [i \in DOMAIN parsing |-> [parsing[i] EXCEPT !.live = FALSE]]
          /\ uploadError' = uploadError
     ELSE UNCHANGED uploadVars
  /\ rendered' = IF currentPage = "dashboard" THEN NoRender ELSE rendered
  /\ autoGenerateEffect(page = "insights", csvData, dataColumns, aiAutoGenerate, calls)
  /\ UNCHANGED << now, configured, dataVars, chartConfigs, showConfigurator,
                  editingChart, chatVars, aiAutoGenerate, suggestVars, completedAnalyses >>

(***************************************************************************)
(* The application after load: the store's initial state and no component  *)
(* mounted but the landing page.  configured is getConfigStatus() of the   *)
(* build's environment.                                                    *)
(***************************************************************************)
InitProgram ==
  /\ now = StartTime
  /\ configured \in BOOLEAN
  /\ currentPage = "landing"
  /\ csvData = NullData
  /\ dataColumns = UndefinedColumns
  /\ dataStats = EmptyStats
  /\ uploadError = Null
  /\ chartConfigs = << >>
  /\ aiInsights = << >>
  /\ aiInsightsLoading = FALSE
  /\ aiInsightsError = Null
  /\ aiChatMessages = << >>
  /\ aiChatLoading = FALSE
  /\ aiAutoGenerate = FALSE
  /\ uploadedFile = NoFile
  /\ isProcessing = FALSE
  /\ processingError = Null
  /\ processingResults = NoResults
  /\ showPreview = FALSE
  /\ parsing = << >>
  /\ showConfigurator = FALSE
  /\ editingChart = NullConfig
  /\ aiLoading = FALSE
  /\ aiError = Null
  /\ aiSuggestions = << >>
  /\ rendered = NoRender
  /\ lastApiCallTime = 0
  /\ cache = [key \in CacheKeys |-> NoEntry]
  /\ calls = << >>
  /\ lastCall = NoCallYet
  /\ completedAnalyses = {}
  /\ showExportModal = FALSE
  /\ exportStatus = NoExportStatus
  /\ isExporting = FALSE
  /\ selectedFormat = Null
  /\ closeTimers = 0

Init ==
  /\ InitProgram
  /\ args = NoArgs
  /\ returned = NotCalled

(***************************************************************************)
(* Calls of the pure functions.  A specification of a function starts with *)
(* the arguments of one call, drawn from a bounded set, and its action     *)
(* applies the function to them; the program's state stays as constructed. *)
(***************************************************************************)
Returned(value) == [called |-> TRUE, value |-> value]

InitCall(fn, Inputs) ==
  /\ InitProgram
  /\ args \in {[fn |-> fn, in |-> x] : x \in Inputs}
  /\ returned = NotCalled

\* the call returns value
Call(fn, value) ==
  /\ args.fn = fn
  /\ returned = NotCalled
  /\ returned' = Returned(value)
  /\ UNCHANGED << args, programVars >>

\* ---- validateCSV ----
MaxRows == 3
PadRows == 10

\* a row with the keys of the header, a row that lacks a key, a row whose
\* cells are all empty
FullRow == Row2("region", Str("east"), "sales", Num(10))
ShortRow == ("region" :> Str("west"))
EmptyRow == Row2("region", NullV, "sales", Str(""))
RowKinds == {FullRow, ShortRow, EmptyRow}

RowSeqs(n) == UNION {[1..k -> RowKinds] : k \in 0..n}
Padding(n) == [i \in 1..n |-> FullRow]
DataOf(rows) ==
  [keys |-> IF rows = << >> THEN << >>
            ELSE IF rows[1] = ShortRow THEN << "region" >> ELSE << "region", "sales" >>,
   rows |-> rows]

ValidateCSVInputs ==
  {NullData} \cup {DataOf(rows \o Padding(pad)) : rows \in RowSeqs(MaxRows), pad \in {0, PadRows}}

validateCSVCall == Call("validateCSV", validateCSV(args.in))

SpecValidateCSV == InitCall("validateCSV", ValidateCSVInputs) /\ [][validateCSVCall]_vars

(***************************************************************************)
(* Calls of validateChartConfig: a configuration object with each field    *)
(* unset, naming a column of the list or naming a column that is not in    *)
(* it, and a column list given as names or as descriptors.                 *)
(***************************************************************************)
ChartTypes == {"bar", "line", "pie", "scatter", "area", Undefined}
ColumnChoices == {Undefined, "region", "ghost"}
Configs ==
  {NullConfig} \cup
  [chartType : ChartTypes, xColumn : ColumnChoices, yColumn : ColumnChoices,
   categoryColumn : ColumnChoices, valueColumn : ColumnChoices,
   nameColumn : ColumnChoices]

Strings(names) == [of |-> "strings", items |-> names]
Descriptors(names) ==
  [of |-> "objects", items |-> [i \in DOMAIN names |-> [name |-> names[i], type |-> "string"]]]
ColumnLists == {Strings(<< "region", "sales" >>), Descriptors(<< "sales", "region" >>)}

\* columns.map(c => typeof c === 'string' ? c : c.name)
columnNamesOf(columns) ==
  IF columns.of = "strings" THEN columns.items
  ELSE [i \in DOMAIN columns.items |-> columns.items[i].name]

ValidateChartConfigInputs == [config : Configs, columns : ColumnLists]

validateChartConfigCall ==
  Call("validateChartConfig",
       validateChartConfig(args.in.config, columnNamesOf(args.in.columns)))

SpecValidateChartConfig ==
  InitCall("validateChartConfig", ValidateChartConfigInputs) /\ [][validateChartConfigCall]_vars

(***************************************************************************)
(* preparePieChartData called on small datasets: rows of a category and a  *)
(* sales cell, with and without a value column, for each topN.             *)
(***************************************************************************)
MaxPieRows == 4
MaxTopN == 2
PieRow(category, sales) == Row2("region", category, "sales", sales)
PieRows == {PieRow(Str("a"), Num(2)), PieRow(Str("b"), Num(1)),
            PieRow(Str("c"), Str("0.005")), PieRow(Num(7), Str("n/a")),
            PieRow(Str("constructor"), Num(1)), PieRow(NullV, Num(3))}
PieData == {DataOf(rows) : rows \in UNION {[1..n -> PieRows] : n \in 0..MaxPieRows}}
PieInputs == [data : PieData, categoryColumn : {"region"},
              valueColumn : {Null, "sales"}, topN : {NullV} \cup {Num(k) : k \in 0..MaxTopN}]
preparePieChartDataCall ==
  Call("preparePieChartData",
       preparePieChartData(args.in.data, args.in.categoryColumn,
                           args.in.valueColumn, args.in.topN))
SpecPie == InitCall("preparePieChartData", PieInputs) /\ [][preparePieChartDataCall]_vars

(***************************************************************************)
(* prepareBarChartData called on small datasets, for each aggregation.     *)
(***************************************************************************)
MaxBarRows == 3
BarRow(x, y) == Row2("region", x, "sales", y)
BarRows == {BarRow(Str("east"), Num(2)), BarRow(Str("east"), Num(-1)),
            BarRow(Str("west"), Str("0.005")), BarRow(Num(7), Num(2)),
            BarRow(Str(""), Num(2)), BarRow(NullV, Num(2)),
            BarRow(Str("east"), Str("n/a")), BarRow(Str("west"), NullV),
            BarRow(Str("constructor"), Num(2))}
BarData == {DataOf(rows) : rows \in UNION {[1..n -> BarRows] : n \in 0..MaxBarRows}}
Aggregations == {"sum", "avg", "count", "COUNT", "min", "max", "median", NonString}
BarInputs == [data : BarData, xColumn : {"region"}, yColumn : {"sales"},
              aggregation : Aggregations]
prepareBarChartDataCall ==
  Call("prepareBarChartData",
       prepareBarChartData(args.in.data, args.in.xColumn, args.in.yColumn,
                           args.in.aggregation))
SpecBar == InitCall("prepareBarChartData", BarInputs) /\ [][prepareBarChartDataCall]_vars

(***************************************************************************)
(* prepareLineChartData called on small datasets whose X values are        *)
(* numbers, dates in two notations, and strings that are no dates.         *)
(***************************************************************************)
MaxLineRows == 3
LineXs == {Num(9), Num(10), Str("2024-01-01"), Str("12/1/2023"), Str("1/2/2024"),
           Str("n/a"), Str("east"), Str("constructor"), NullV}
LineYs == {Num(2), Str("n/a")}
LineRows == {Row2("month", x, "sales", y) : x \in LineXs, y \in LineYs}
LineData == {[keys |-> << "month", "sales" >>, rows |-> rows] :
               rows \in UNION {[1..n -> LineRows] : n \in 1..MaxLineRows}}
LineInputs == [data : LineData, xColumn : {"month"}, yColumn : {"sales"},
               aggregation : {"avg", NonString}]
prepareLineChartDataCall ==
  Call("prepareLineChartData",
       prepareLineChartData(args.in.data, args.in.xColumn, args.in.yColumn,
                            args.in.aggregation))
SpecLine == InitCall("prepareLineChartData", LineInputs) /\ [][prepareLineChartDataCall]_vars

(***************************************************************************)
(* suggestChartType called on every list of up to MaxColumns typed columns *)
(* with each selection of X and Y: unset, a listed column, an unknown one. *)
(***************************************************************************)
MaxColumns == 3
ColumnTypes == {"number", "date", "category", "string", "boolean"}
ColumnNames == << "c1", "c2", "c3", "c4" >>
TypedColumns ==
  UNION {{[i \in 1..n |-> [name |-> ColumnNames[i], type |-> types[i]]] :
            types \in [1..n -> ColumnTypes]} : n \in 0..MaxColumns}
ColumnSelections == {Null, "c1", "c2", "ghost"}
SuggestInputs == [columns : TypedColumns, xColumn : ColumnSelections,
                  yColumn : ColumnSelections]
suggestChartTypeCall ==
  Call("suggestChartType",
       suggestChartType(args.in.columns, args.in.xColumn, args.in.yColumn))
SpecSuggestChartType ==
  InitCall("suggestChartType", SuggestInputs) /\ [][suggestChartTypeCall]_vars

\* ---- Quick Suggest ----
\* the configurator as it opens for a new chart, and with a pie chart
\* already selected by hand
OpenedSelections ==
  { Selections("bar", "", "", "", "", "sum"),
    Selections("pie", "", "", "c1", "", "count") }
QuickSuggestInputs == [selections : OpenedSelections, columns : TypedColumns]
handleAutoSuggestCall ==
  Call("handleAutoSuggest", handleAutoSuggest(args.in.selections, args.in.columns))
SpecQuickSuggest ==
  InitCall("handleAutoSuggest", QuickSuggestInputs) /\ [][handleAutoSuggestCall]_vars

(***************************************************************************)
(* inferColumnTypes called on datasets of one column: a few leading cells, *)
(* a block of distinct strings, a run of equal cells that takes the        *)
(* dataset up to and past the sample of 100 rows, and a last cell.         *)
(***************************************************************************)
MaxLeading == 2
MaxDistinct == 10
FillRows == 99
InferCells == {Num(7), Str("7"), Str("2024"), Str("2024-01-01"), Str("east"),
               Bool(TRUE), NullV, Str("")}
DistinctStrings == << "s01", "s02", "s03", "s04", "s05", "s06", "s07", "s08", "s09",
                      "s10", "s11" >>
Leading == UNION {[1..n -> InferCells] : n \in 0..MaxLeading}
Block(n) == [i \in 1..n |-> Str(DistinctStrings[i])]
Fill(v, n) == [i \in 1..n |-> v]
Last == {<< >>, << Str("east") >>, << Num(7) >>, << NullV >>}
ColumnOf(cells) ==
  [keys |-> IF cells = << >> THEN << >> ELSE << "v" >>,
   rows |-> [i \in DOMAIN cells |-> ("v" :> cells[i])]]
InferInputs ==
  {ColumnOf(leading \o Block(b) \o Fill(v, f) \o last) :
     leading \in Leading, b \in {0, MaxDistinct - 1, MaxDistinct},
     v \in {NullV, Str("2024")}, f \in {0, FillRows}, last \in Last}
inferColumnTypesCall == Call("inferColumnTypes", inferColumnTypes(args.in))
SpecInfer == InitCall("inferColumnTypes", InferInputs) /\ [][inferColumnTypesCall]_vars

(***************************************************************************)
(* The three aggregating transformers called on the same small datasets,   *)
(* whose sales cells are whole, negative, fractional and no number, under  *)
(* each aggregation.                                                       *)
(***************************************************************************)
MaxAggRows == 3
AggRow(x, y) == Row2("region", x, "sales", y)
AggRows == {AggRow(Str("east"), Num(2)), AggRow(Str("east"), Num(-1)),
            AggRow(Str("east"), Str("0.005")), AggRow(Str("east"), Str("n/a")),
            AggRow(Str("west"), Num(2)), AggRow(Str("west"), Str("0.005"))}
\* the methods that the configurator offers
Methods == {"sum", "avg", "count", "min", "max"}
AggData == {[keys |-> << "region", "sales" >>, rows |-> rows] :
              rows \in UNION {[1..n -> AggRows] : n \in 1..MaxAggRows}}
BarAggInputs == [data : AggData, xColumn : {"region"}, yColumn : {"sales"},
                 aggregation : Methods]
LineAggInputs == [data : AggData, xColumn : {"region"}, yColumn : {"sales"},
                  aggregation : Methods]
PieAggInputs == [data : AggData, categoryColumn : {"region"},
                 valueColumn : {Null, "sales"}, topN : {NullV, Num(1)}]
InitTransformers ==
  \/ InitCall("prepareBarChartData", BarAggInputs)
  \/ InitCall("prepareLineChartData", LineAggInputs)
  \/ InitCall("preparePieChartData", PieAggInputs)
NextTransformers ==
  \/ prepareBarChartDataCall
  \/ prepareLineChartDataCall
  \/ preparePieChartDataCall
SpecTransformers == InitTransformers /\ [][NextTransformers]_vars
SpecLineAggregation ==
  InitCall("prepareLineChartData", LineAggInputs) /\ [][prepareLineChartDataCall]_vars

(***************************************************************************)
(* The prompts of the three client functions for datasets of up to         *)
(* MaxPromptRows rows and MaxPromptColumns columns, with the descriptors   *)
(* that inferColumnTypes gives them.                                       *)
(***************************************************************************)
MaxPromptRows == 101
MaxPromptColumns == 21
RowCounts == {0, 1, 4, 5, 6, 9, 10, 11, 50, 51, 100, MaxPromptRows}
ColumnCounts == {1, 2, 20, MaxPromptColumns}
WideData(r, c) ==
  [keys |-> [j \in 1..c |-> ToString(j)],
   rows |-> [i \in 1..r |-> [k \in {ToString(j) : j \in 1..c} |-> Num(i)]]]
ClientFunctions == {"analyzeData", "suggestChartWithAI", "answerQuestion"}
PromptInputs == [fn : ClientFunctions,
                 data : {WideData(r, c) : r \in RowCounts, c \in ColumnCounts}]
promptCall ==
  Call("prompt", promptOf(args.in.fn, args.in.data, inferColumnTypes(args.in.data)))
SpecPrompt == InitCall("prompt", PromptInputs) /\ [][promptCall]_vars

\* ---- analyzeData up to its request ----
\* Date.now() at the call and lastApiCallTime before it, a call never
\* before the last accepted one
CallTimes == {0, 1000, 1999, 2000, 2001, 3000, 3999, 4000, 6000}
LastTimes == {0, 1000, 2000}
AnalyzedData == {NullData, EmptyData, DataA, DataB}
AnalyzedColumns == {UndefinedColumns, Columns(<< >>)}
                     \cup {Columns(inferColumnTypes(d)) : d \in {DataA, DataB}}
AnalyzeInputs ==
  {x \in [data : AnalyzedData, columns : AnalyzedColumns,
          t : CallTimes, last : LastTimes] : x.t >= x.last}
analyzeDataCall ==
  Call("analyzeData",
       analyzeData(args.in.data, args.in.columns, args.in.t, args.in.last))
SpecAnalyzeData == InitCall("analyzeData", AnalyzeInputs) /\ [][analyzeDataCall]_vars

(***************************************************************************)
(* Specifications.  Each takes the handlers of one part of the program,    *)
(* from the same initial state.                                            *)
(***************************************************************************)
\* two files that differ in their columns
ChartFiles == {f \in Files : f.name \in {"a.csv", "b.csv"}}
ClientFiles == {f \in Files : f.name = "a.csv"}

\* the upload pipeline with every file
NextUpload ==
  \/ \E page \in Pages : setCurrentPage(page)
  \/ \E file \in Files : handleFile(file)
  \/ removeFile
  \/ processFile
  \/ \E i \in DOMAIN parsing : processFileSettled(i)
  \/ togglePreview

SpecUpload == Init /\ [][NextUpload]_vars

\* uploads that replace the dataset, chart configuration and rendering
NextCharts ==
  \/ \E page \in Pages : setCurrentPage(page)
  \/ \E file \in ChartFiles : handleFile(file)
  \/ processFile
  \/ \E i \in DOMAIN parsing : processFileSettled(i)
  \/ handleAddChart
  \/ \E i \in DOMAIN chartConfigs : handleEditChart(i)
  \/ onCancel
  \/ \E selections \in ConfiguratorInputs : handleSave(selections)
  \/ \E i \in DOMAIN chartConfigs : handleDeleteChart(i)
  \/ \E i \in DOMAIN chartConfigs : ChartCard(i)

SpecCharts == Init /\ [][NextCharts]_vars

\* the chart list over time: charts are added, edited and deleted while the
\* clock advances; a new chart is saved later than the charts in the list
\* (Date.now() has advanced since the save that closed the configurator)
laterThanSaved == \A i \in DOMAIN chartConfigs : chartConfigs[i].id < now

NextChartStore ==
  \/ Tick(TickStep)
  \/ \E page \in Pages : setCurrentPage(page)
  \/ \E file \in ClientFiles : handleFile(file)
  \/ processFile
  \/ \E i \in DOMAIN parsing : processFileSettled(i)
  \/ handleAddChart
  \/ \E i \in DOMAIN chartConfigs : handleEditChart(i)
  \/ onCancel
  \/ \E selections \in ConfiguratorInputs :
        (editingChart # NullConfig \/ laterThanSaved) /\ handleSave(selections)
  \/ \E i \in DOMAIN chartConfigs : handleDeleteChart(i)

SpecChartStore == Init /\ [][NextChartStore]_vars

\* the retry loop of an analysis under every response of the endpoint
NextRetry ==
  \/ Tick(TickStep)
  \/ \E page \in Pages : setCurrentPage(page)
  \/ \E file \in ClientFiles : handleFile(file)
  \/ processFile
  \/ \E i \in DOMAIN parsing : processFileSettled(i)
  \/ handleGenerateInsights
  \/ \E k \in DOMAIN calls : \E response \in Responses : endpointResponds(k, response)
  \/ \E k \in DOMAIN calls : backoffElapsed(k)

SpecRetry == Init /\ [][NextRetry]_vars

\* the AI Insights page: analyses and questions, the endpoint answering
\* each request with a completion or a failure that is not retried
GateResponses == {Completion("insights"), Failure(401)}

NextGate ==
  \/ Tick(TickStep)
  \/ \E page \in Pages : setCurrentPage(page)
  \/ \E file \in ClientFiles : handleFile(file)
  \/ processFile
  \/ \E i \in DOMAIN parsing : processFileSettled(i)
  \/ handleGenerateInsights
  \/ handleAskQuestion
  \/ clearChatMessages
  \/ \E auto \in BOOLEAN : setAiAutoGenerate(auto)
  \/ \E k \in DOMAIN calls : \E response \in GateResponses : endpointResponds(k, response)

SpecGate == Init /\ [][NextGate]_vars

\* analyses and chart suggestions, each from its page
NextSuggest ==
  \/ Tick(TickStep)
  \/ \E page \in Pages : setCurrentPage(page)
  \/ \E file \in ClientFiles : handleFile(file)
  \/ processFile
  \/ \E i \in DOMAIN parsing : processFileSettled(i)
  \/ handleAddChart
  \/ onCancel
  \/ handleAiSuggest
  \/ handleGenerateInsights
  \/ \E k \in DOMAIN calls : \E response \in GateResponses : endpointResponds(k, response)

SpecSuggest == Init /\ [][NextSuggest]_vars

\* the insight cache over its lifetime: analyses that succeed or fail at
\* once, auto-generation, re-uploads and revisits
CacheResponses == {Completion("insights"), Completion("empty"), Failure(401)}

NextCache ==
  \/ \E d \in CacheTicks : Tick(d)
  \/ \E page \in Pages : setCurrentPage(page)
  \/ \E file \in ChartFiles : handleFile(file)
  \/ processFile
  \/ \E i \in DOMAIN parsing : processFileSettled(i)
  \/ handleGenerateInsights
  \/ \E auto \in BOOLEAN : setAiAutoGenerate(auto)
  \/ \E k \in DOMAIN calls : \E response \in CacheResponses : endpointResponds(k, response)

SpecCache == Init /\ [][NextCache]_vars

\* the insight cache over two files of one shape and one first row
KeyFiles == {f \in Files : f.name \in {"a.csv", "a2.csv"}}

NextCacheKeys ==
  \/ \E d \in CacheTicks : Tick(d)
  \/ \E page \in Pages : setCurrentPage(page)
  \/ \E file \in KeyFiles : handleFile(file)
  \/ processFile
  \/ \E i \in DOMAIN parsing : processFileSettled(i)
  \/ handleGenerateInsights
  \/ \E auto \in BOOLEAN : setAiAutoGenerate(auto)
  \/ \E k \in DOMAIN calls : \E response \in CacheResponses : endpointResponds(k, response)

SpecCacheKeys == Init /\ [][NextCacheKeys]_vars

\* the operations that can fail: analyses, chart suggestions and exports,
\* a first question, over one upload and one saved chart
FailureFormats == {"PDF", "JSON"}
FailureSelections == {Selections("bar", "region", "sales", "", "", "sum")}

NextFailures ==
  \/ Behind(\E page \in Pages : setCurrentPage(page))
  \/ Behind(\E file \in ClientFiles : handleFile(file))
  \/ Behind(NoRows(csvData) /\ processFile)
  \/ \E i \in DOMAIN parsing : processFileSettled(i)
  \/ Behind(handleAddChart)
  \/ Behind(chartConfigs = << >> /\ \E selections \in FailureSelections : handleSave(selections))
  \/ Behind(onCancel)
  \/ Behind(handleAiSuggest)
  \/ Behind(handleGenerateInsights)
  \/ Behind(aiChatMessages = << >> /\ handleAskQuestion)
  \/ \E k \in DOMAIN calls : \E response \in GateResponses : endpointResponds(k, response)
  \/ openExportModal
  \/ closeExportModal
  \/ \E format \in FailureFormats : \E result \in ExportResults(format) : handleExport(format, result)
  \/ \E result \in ExportResults("PDF") : exportToPDFSettled(result)
  \/ closeTimerFires

SpecFailures == Init /\ [][NextFailures]_vars

\* every asynchronous operation with every way it can settle: a file that
\* parses, one that does not and one that cannot be read; an analysis and a
\* question started when the application is loaded, answered by a
\* completion, a client error or a server error that is retried; exports.
\* Every promise settles and every timer fires.
LiveFiles == {f \in Files : f.name \in {"a.csv", "malformed.csv", "unreadable.csv"}}
LiveResponses == {Completion("insights"), Failure(401), Failure(500)}
respondsTo(fn) ==
  \E k \in DOMAIN calls :
     calls[k].fn = fn /\ \E response \in LiveResponses : endpointResponds(k, response)

\* the clock advances while a backoff timer is pending
backoffPending == \E k \in DOMAIN calls : calls[k].phase = "delay" /\ now < calls[k].wakeAt
\* no promise is pending
idle == calls = << >> /\ parsing = << >>

NextLive ==
  \/ backoffPending /\ Tick(TickStep)
  \/ Behind(\E page \in Pages : setCurrentPage(page))
  \/ Behind(NoRows(csvData) /\ \E file \in LiveFiles : handleFile(file))
  \/ Behind(parsing = << >> /\ processFile)
  \/ \E i \in DOMAIN parsing : processFileSettled(i)
  \/ Behind(now = StartTime /\ calls = << >> /\ handleGenerateInsights)
  \/ Behind(now = StartTime /\ calls = << >> /\ aiChatMessages = << >> /\ handleAskQuestion)
  \/ respondsTo("analyzeData")
  \/ respondsTo("answerQuestion")
  \/ \E k \in DOMAIN calls : backoffElapsed(k)
  \/ idle /\ currentPage = "dashboard" /\ openExportModal
  \/ closeExportModal
  \/ closeTimers = 0 /\ \E format \in FailureFormats :
        \E result \in ExportResults(format) : handleExport(format, result)
  \/ \E result \in ExportResults("PDF") : exportToPDFSettled(result)
  \/ closeTimerFires

SpecLive ==
  /\ Init /\ [][NextLive]_vars
  /\ WF_vars(backoffPending /\ Tick(TickStep))
  /\ WF_vars(\E i \in DOMAIN parsing : processFileSettled(i))
  /\ WF_vars(respondsTo("analyzeData"))
  /\ WF_vars(respondsTo("answerQuestion"))
  /\ WF_vars(\E k \in DOMAIN calls : backoffElapsed(k))
  /\ WF_vars(\E result \in ExportResults("PDF") : exportToPDFSettled(result))

(***************************************************************************)
(* Properties of the upload pipeline (SpecUpload).                         *)
(***************************************************************************)
\* Papa reports an error for the file or parses no row from it
parseFails(file) ==
  \/ file.papa.callback = "error"
  \/ file.papa.errors > 0
  \/ NoRows(file.papa.data)

\* C9: when the parse of an upload reports an error or yields zero rows,
\* the rest of processFile stores no dataset: csvData, dataColumns and
\* dataStats keep their values, the error message is recorded (uploadError)
\* and, on the page instance that started the upload, shown
\* (processingError) with isProcessing back to false and no results.
C9_FailedParseStoresNothing ==
  [][\A i \in DOMAIN parsing :
       (parseFails(parsing[i].file) /\ processFileSettled(i)) =>
          /\ UNCHANGED dataVars
          /\ uploadError' # Null
          /\ parsing[i].live =>
                /\ processingError' = uploadError'
                /\ isProcessing' = FALSE
                /\ processingResults' = processingResults]_vars

\* a dataset is in the store, and a later upload of a file with a header
\* and no rows has failed on the page
C9_Witness ==
  /\ csvData = DataA
  /\ processingError = "CSV file is empty or contains no valid data"
  /\ uploadError = processingError
  /\ ~isProcessing
  /\ parsing = << >>

\* C10 (as claimed): the dataset in the store is never one that validateCSV
\* rejects.
C10_StoredDataPassesValidateCSV ==
  csvData # NullData => validateCSV(csvData).valid

(***************************************************************************)
(* Properties of chart configuration and rendering (SpecCharts).           *)
(***************************************************************************)
\* the columns a configuration names
referenced(config) ==
  {config.xColumn, config.yColumn, config.categoryColumn, config.valueColumn,
   config.nameColumn} \ {"", Undefined}

present(data) == {data.keys[i] : i \in DOMAIN data.keys}

rejected(config) == ~validateChartConfig(config, csvData.keys).isValid

C8_RejectedConfigNeitherSavedNorTransformed ==
  [][ /\ \A selections \in ConfiguratorInputs :
          (rejected(selections) /\ handleSave(selections)) => UNCHANGED chartConfigs
      /\ \A i \in DOMAIN chartConfigs :
          (rejected(chartConfigs[i]) /\ ChartCard(i)) =>
             /\ rendered'.chartData = << >>
             /\ ~rendered'.isValid
             /\ rendered'.error = validateChartConfig(chartConfigs[i], csvData.keys).error
             /\ rendered'.called = "none"
             /\ ~rendered'.escaped]_vars

\* a card has rendered a configuration whose column a re-upload removed
C8_Witness ==
  /\ rendered # NoRender
  /\ ~rendered.isValid
  /\ rendered.error = << "Column not found", "sales" >>
  /\ rendered.chartData = << >>

(***************************************************************************)
(* Properties of the AI client.                                            *)
(***************************************************************************)
\* C1 (as claimed; SpecSuggest): no request is pending at the endpoint for
\* a call that was issued less than MIN_TIME_BETWEEN_CALLS after the
\* previous accepted call.
C1_NoRequestForEarlyCall ==
  \A k \in DOMAIN calls : ~calls[k].early

\* failures after which retryWithBackoff must not go round again, and
\* completions that the client function cannot parse
clientError(response) == response.status >= 400 /\ response.status < 500
unparsable(c, response) ==
  response.status = 200 /\ response.body = "text" /\ c.fn # "answerQuestion"
transient(response) == response.status >= 500 \/ response.status = NoStatus

\* the analysis has ended with its error shown on the page
analysisFailed ==
  /\ aiInsightsError' # Null
  /\ aiInsightsLoading' = FALSE
  /\ UNCHANGED << aiInsights, cache >>

\* C2 (SpecRetry): a response with status 401, 403, 429 or another 4xx, or a
\* completion that is not JSON, ends the call at once: the call leaves the
\* pending calls without a backoff wait or a further invocation, and its
\* error is shown; so no pending call has seen such a response.
C2_ClientErrorsAreNotRetried ==
  [][ /\ \A k \in DOMAIN calls : \A response \in Responses :
          ( /\ clientError(response) \/ unparsable(calls[k], response)
            /\ endpointResponds(k, response) ) =>
             /\ calls' = RemoveAt(calls, k)
             /\ calls[k].fn = "analyzeData" => analysisFailed
      /\ \A k \in DOMAIN calls' : \A j \in DOMAIN calls'[k].seen :
          transient(calls'[k].seen[j]) ]_vars

\* the first request of an analysis was answered with 401: the error is
\* shown at the time the request was made and nothing is pending
C2_Witness ==
  /\ aiInsightsError = "Invalid API key. Please check your OpenAI API key in Settings."
  /\ ~aiInsightsLoading
  /\ calls = << >>
  /\ lastCall.acceptedAt = now

\* C3 (SpecRetry): while the endpoint answers with 5xx or a network error,
\* attempt i (0, 1) is followed by a wait of retryDelay * 2^i (1000, then
\* 2000) that must elapse before the next invocation, the failure of the
\* third invocation ends the call with its error shown, a call invokes the
\* endpoint at most maxRetries (3) times, and a completion ends the call
\* with no further invocation.
C3_TransientErrorsRetriedWithBackoff ==
  [][ /\ \A k \in DOMAIN calls : \A response \in Responses :
          (transient(response) /\ endpointResponds(k, response)) =>
             IF calls[k].invoked < 3
             THEN /\ Len(calls') = Len(calls)
                  /\ calls'[k].phase = "delay"
                  /\ calls'[k].wakeAt = now + (IF calls[k].invoked = 1 THEN 1000 ELSE 2000)
                  /\ calls'[k].invoked = calls[k].invoked
             ELSE /\ calls' = RemoveAt(calls, k)
                  /\ calls[k].fn = "analyzeData" => analysisFailed
      /\ \A k \in DOMAIN calls :
          backoffElapsed(k) =>
             /\ now >= calls[k].wakeAt
             /\ calls'[k].invoked = calls[k].invoked + 1
      /\ \A k \in DOMAIN calls : \A response \in Responses :
          (response.status = 200 /\ endpointResponds(k, response)) =>
             calls' = RemoveAt(calls, k)
      /\ \A k \in DOMAIN calls' :
          /\ calls'[k].invoked <= 3
          /\ calls'[k].waits \in {<< >>, << 1000 >>, << 1000, 2000 >>}
          /\ Len(calls'[k].waits) = calls'[k].invoked - 1 + (IF calls'[k].phase = "delay" THEN 1 ELSE 0) ]_vars

\* an analysis is at its third invocation, after waits of 1000 and 2000 ms
C3_Witness ==
  \E k \in DOMAIN calls :
     /\ calls[k].invoked = 3
     /\ calls[k].phase = "request"
     /\ calls[k].waits = << 1000, 2000 >>
     /\ now >= lastCall.acceptedAt + 3000

(***************************************************************************)
(* Properties of the AI Insights page (SpecGate).                          *)
(***************************************************************************)
pending(fn) == {k \in DOMAIN calls : calls[k].fn = fn}

\* C4 (as claimed): at most one request started from the page is in flight.
C4_AtMostOneRequestInFlight ==
  Cardinality(pending("analyzeData") \cup pending("answerQuestion")) <= 1

\* C4 (amended): at most one analysis and at most one question of the AI
\* Insights page are in flight, and a call that the gate rejects starts no
\* request: while the latest call is a rejected one no request is added.
C4_OneAnalysisOneQuestionNoQueue ==
  [][ /\ Cardinality({k \in DOMAIN calls' : calls'[k].fn = "analyzeData"}) <= 1
      /\ Cardinality({k \in DOMAIN calls' : calls'[k].fn = "answerQuestion"}) <= 1
      /\ lastCall'.gate = "rejected" => Len(calls') <= Len(calls) ]_vars

\* the gate has rejected an analysis while a question is in flight, and
\* the question is the only request
C4_Witness ==
  /\ lastCall.gate = "rejected"
  /\ ~aiInsightsLoading
  /\ aiInsightsError = "Rate limit exceeded. Please wait a few moments and try again."
  /\ Len(calls) = 1
  /\ calls[1].fn = "answerQuestion"

(***************************************************************************)
(* Properties of the insight cache (SpecCache).                            *)
(***************************************************************************)
ThirtyMinutes == 30 * 60 * 1000
age(key) == now - cache[key].timestamp

\* C5: every entry of the cache is the result of an analysis that
\* completed, and a lookup at the current time returns nothing and deletes
\* the entry when it was stored more than 30 minutes ago, and otherwise
\* returns the data last stored under the key and leaves the cache alone;
\* an entry leaves the cache only when it is more than 30 minutes old.
C5_CacheHoldsCompletedResultsAndExpires ==
  [][ /\ \A key \in CacheKeys :
          cache'[key] # NoEntry =>
             /\ cache'[key].data \in completedAnalyses'
             /\ LET got == getCachedResponse(cache', key, now')
                IN IF now' - cache'[key].timestamp > ThirtyMinutes
                   THEN got.data = NoEntry /\ got.cache[key] = NoEntry
                   ELSE got.data = cache'[key].data /\ got.cache = cache'
      /\ \A key \in CacheKeys :
          (cache[key] # NoEntry /\ cache'[key] = NoEntry) => age(key) > ThirtyMinutes ]_vars

\* results were cached, time has passed the 30 minutes, and a lookup has
\* found the entry expired: the cache is empty and an analysis is under way
C5_Witness ==
  /\ completedAnalyses # {}
  /\ now > StartTime + ThirtyMinutes
  /\ \A key \in CacheKeys : cache[key] = NoEntry
  /\ aiInsightsLoading

\* the key of the dataset in the store has an entry that has not expired
unexpired(data, columns) ==
  /\ ~NoRows(data) /\ hasColumns(columns)
  /\ LET key == generateCacheKey(data, columns.cols)
     IN cache[key] # NoEntry /\ age(key) <= ThirtyMinutes

effectRuns ==
  /\ currentPage' = "insights" /\ aiAutoGenerate' /\ configured
  /\ aiInsights = << >> /\ ~aiInsightsLoading
  /\ \/ currentPage # "insights"
     \/ ~aiAutoGenerate
     \/ \E i \in DOMAIN parsing :
          processFileSettled(i) /\ ~parseFails(parsing[i].file)

wellHeaded(data) ==
  /\ data # NullData /\ length(data) > 0
  /\ DOMAIN data.rows[1] # {}
  /\ \A col \in DOMAIN data.rows[1] : trim(col) # ""
inconsistentRows(data) ==
  Cardinality({i \in 1..length(data) : DOMAIN data.rows[i] # DOMAIN data.rows[1]})
emptyRows(data) ==
  Cardinality({i \in 1..length(data) :
                 \A c \in DOMAIN data.rows[i] :
                    LET v == data.rows[i][c]
                    IN v.k = "null" \/ (v.k = "string" /\ v.s = "")})

\* C11 (as claimed): for a non-empty dataset with non-blank headers,
\* validateCSV returns valid = true with warnings when more than 10% of
\* the rows have a key set other than the first row's, and also when more
\* than 20% of the rows are entirely empty.
C11_InconsistencyOnlyWarns ==
  (returned.called /\ wellHeaded(args.in)) =>
     LET data == args.in
         result == returned.value
     IN /\ 10 * inconsistentRows(data) > length(data) =>
             result.valid /\ result.warnings # << >>
        /\ 10 * emptyRows(data) > 2 * length(data) =>
             result.valid /\ result.warnings # << >>

\* C11 (amended): for a non-empty dataset with non-blank headers,
\* validateCSV rejects (valid = false, with a message and the warnings of
\* the inconsistent rows) when more than 10% of the rows have a key set
\* other than the first row's; otherwise it returns valid = true, with a
\* warning in the list when more than 20% of the rows are entirely empty.
C11_InconsistencyRejectsEmptyRowsWarn ==
  (returned.called /\ wellHeaded(args.in)) =>
     LET data == args.in
         result == returned.value
     IN IF 10 * inconsistentRows(data) > length(data)
        THEN ~result.valid /\ result.message # "" /\ result.warnings # << >>
        ELSE /\ result.valid
             /\ 10 * emptyRows(data) > 2 * length(data) =>
                  \E i \in DOMAIN result.warnings :
                     result.warnings[i] = << "rows contain all empty values", emptyRows(data) >>
             /\ 10 * emptyRows(data) <= 2 * length(data) =>
                  \A i \in DOMAIN result.warnings :
                     result.warnings[i][1] # "rows contain all empty values"

\* validateCSV has returned for a dataset with more than 10% of its rows
\* inconsistent and more than 20% of its rows empty
C11_Witness ==
  /\ returned.called /\ wellHeaded(args.in)
  /\ 10 * inconsistentRows(args.in) > length(args.in)
  /\ 10 * emptyRows(args.in) > 2 * length(args.in)
  /\ ~returned.value.valid

(***************************************************************************)
(* Properties of the display of validation warnings (SpecUpload).          *)
(***************************************************************************)
\* C12 (as claimed): when processFile, on the mounted upload page, stores a
\* dataset for which validateCSV returned warnings, the page displays
\* those warnings once the handler has run.
C12_WarningsOfStoredDatasetDisplayed ==
  [][ \A i \in DOMAIN parsing :
        ( /\ processFileSettled(i)
          /\ parsing[i].live
          /\ csvData' = parseCSVFile(parsing[i].file).data
          /\ processingResults' # NoResults
          /\ validateCSV(csvData').warnings # << >> )
        => warningsDisplayed' = validateCSV(csvData').warnings ]_vars

(***************************************************************************)
(* Properties of failed operations (SpecFailures).                         *)
(***************************************************************************)
datasetAndCharts == << csvData, dataColumns, dataStats, chartConfigs >>
lastMessage(messages) == messages[Len(messages)]

\* C13: a step in which an analysis, a question, a chart suggestion or an
\* export fails (at once, or when the request or the export settles)
\* leaves csvData, dataColumns, dataStats and chartConfigs as they were,
\* and sets the error of the operation: aiInsightsError for an analysis
\* (aiInsights kept), an assistant message for a question, aiError of the
\* open configurator for a suggestion, an exportStatus of type error for an
\* export.
C13_FailedOperationKeepsDataAndCharts ==
  [][ /\ \A k \in DOMAIN calls : \A response \in GateResponses :
          ( /\ endpointResponds(k, response)
            /\ Len(calls') < Len(calls)
            /\ settlement(calls[k], response, response.status # 200).outcome = "rejected" )
          => /\ UNCHANGED datasetAndCharts
             /\ calls[k].fn = "analyzeData" =>
                  aiInsightsError' # Null /\ aiInsights' = aiInsights
             /\ calls[k].fn = "answerQuestion" =>
                  /\ Len(aiChatMessages') > 0
                  /\ lastMessage(aiChatMessages').role = "assistant"
                  /\ lastMessage(aiChatMessages').content # Null
             /\ (calls[k].fn = "suggestChartWithAI" /\ calls[k].live) => aiError' # Null
      /\ (handleGenerateInsights /\ calls' = calls)
          => UNCHANGED datasetAndCharts /\ aiInsightsError' # Null /\ aiInsights' = aiInsights
      /\ (handleAskQuestion /\ calls' = calls)
          => /\ UNCHANGED datasetAndCharts
             /\ lastMessage(aiChatMessages').role = "assistant"
             /\ lastMessage(aiChatMessages').content # Null
      /\ (handleAiSuggest /\ calls' = calls)
          => UNCHANGED datasetAndCharts /\ aiError' # Null
      /\ \A format \in Formats :
          ( /\ handleExport(format, ExportFailed) \/ exportToPDFSettled(ExportFailed)
            /\ ~isExporting' )
          => UNCHANGED datasetAndCharts /\ exportStatus'.type = "error" ]_vars

\* with a dataset and a chart in the store, an analysis, a question and an
\* export have failed, and a suggestion has failed in the open configurator
C13_Witness ==
  /\ ~NoRows(csvData) /\ chartConfigs # << >>
  /\ aiInsightsError # Null
  /\ aiChatMessages # << >> /\ lastMessage(aiChatMessages).role = "assistant"
  /\ lastMessage(aiChatMessages).content # "answer"
  /\ showConfigurator /\ aiError # Null
  /\ exportStatus.type = "error"

(***************************************************************************)
(* Properties of validateChartConfig (SpecValidateChartConfig).            *)
(***************************************************************************)
\* the columns the chart of a configuration reads: what useChartData hands
\* to the transformer of the chart type
columnsRead(config) ==
  ( CASE config.chartType \in {"bar", "line"} -> {config.xColumn, config.yColumn}
      [] config.chartType = "pie" -> {config.categoryColumn, config.valueColumn}
      [] config.chartType = "scatter" -> {config.xColumn, config.yColumn, config.nameColumn}
      [] OTHER -> {} ) \ {"", Undefined}
requiredSet(config) ==
  CASE config.chartType \in {"bar", "line", "scatter"} ->
          ~Falsy(config.xColumn) /\ ~Falsy(config.yColumn)
    [] config.chartType = "pie" -> ~Falsy(config.categoryColumn)
    [] OTHER -> FALSE

\* C14 (as claimed): for every configuration and non-empty column list,
\* validateChartConfig returns isValid = true exactly when the chart type
\* is bar, line, pie or scatter, the required columns of the type are set
\* and every column the configuration references is in the list, and
\* otherwise returns isValid = false with an error string.
C14_ValidExactlyWhenColumnsExist ==
  returned.called =>
    LET config == args.in.config
        names == columnNamesOf(args.in.columns)
        expected == /\ config # NullConfig
                    /\ config.chartType \in {"bar", "line", "pie", "scatter"}
                    /\ requiredSet(config)
                    /\ \A c \in columnsRead(config) : includes(names, c)
    IN /\ returned.value.isValid <=> expected
       /\ ~returned.value.isValid => returned.value.error[1] # Null

(***************************************************************************)
(* C15.  The groups of a dataset are its distinct categories (as strings,  *)
(* null categories apart); the value of a group is its number of rows, or  *)
(* the rounded sum of its value cells that parse.                          *)
(***************************************************************************)
categoryCells(in) ==
  {i \in DOMAIN in.data.rows : Cell(in.data.rows[i], in.categoryColumn).k # "null"}
categoriesOf(in) ==
  {String(Cell(in.data.rows[i], in.categoryColumn)) : i \in categoryCells(in)}
groupValue(in, name) ==
  LET rows == in.data.rows
      members == {i \in categoryCells(in) : String(Cell(rows[i], in.categoryColumn)) = name}
      parsed == {i \in members : ~parseFloatIsNaN(Cell(rows[i], in.valueColumn))}
  IN IF Falsy(in.valueColumn) THEN Thousand * Cardinality(members)
     ELSE round2(SumFn([i \in parsed |-> parseFloat(Cell(rows[i], in.valueColumn))]))
\* points 1..k of result are k different groups with their values, in
\* descending order, and no group left out has a larger value
largestGroups(in, result, k) ==
  /\ \A i \in 1..k : /\ result[i].name \in categoriesOf(in)
                     /\ result[i].value = groupValue(in, result[i].name)
  /\ \A i, j \in 1..k : i < j => /\ result[i].name # result[j].name
                                 /\ result[i].value >= result[j].value
  /\ \A g \in categoriesOf(in) \ {result[i].name : i \in 1..k} :
       \A i \in 1..k : groupValue(in, g) <= result[i].value

\* C15: preparePieChartData with topN = k > 0 on a dataset of n distinct
\* categories returns, when n > k, exactly k + 1 points, the first k being
\* the k largest groups in descending order of value and the last the one
\* 'Others' point whose value is the sum of the values of the groups left
\* out; when n <= k it returns exactly the n groups and adds no 'Others'.
C15_TopNCollapsesTailIntoOthers ==
  (/\ returned.called
   /\ args.fn = "preparePieChartData"
   /\ args.in.topN.k = "number"
   /\ args.in.topN.n > 0)
  => LET in == args.in
         k == in.topN.n
         n == Cardinality(categoriesOf(in))
         result == returned.value
     IN IF n > k
        THEN /\ Len(result) = k + 1
             /\ largestGroups(in, result, k)
             /\ LET excluded == categoriesOf(in) \ {result[i].name : i \in 1..k}
                IN result[k + 1] =
                     Point("Others", SumFn([g \in excluded |-> groupValue(in, g)]))
        ELSE /\ Len(result) = n
             /\ largestGroups(in, result, n)

(***************************************************************************)
(* C16.  The rows that the count leaves out: X null (or absent), Y null or *)
(* not a number for parseFloat.                                            *)
(***************************************************************************)
leftOut(in) ==
  {i \in DOMAIN in.data.rows :
     \/ Cell(in.data.rows[i], in.xColumn).k = "null"
     \/ parseFloatIsNaN(Cell(in.data.rows[i], in.yColumn))}

\* C16: the values of the points that prepareBarChartData returns under the
\* aggregation 'count' add up to the number of rows of the dataset less the
\* rows whose X value is null or whose Y value is null or no number.
C16_CountsAddUpToGroupedRows ==
  (/\ returned.called
   /\ args.fn = "prepareBarChartData"
   /\ args.in.aggregation = "count")
  => /\ ~returned.value.threw
     /\ LET points == returned.value.points
        IN SumFn([i \in DOMAIN points |-> points[i].value])
             = Thousand * (length(args.in.data) - Cardinality(leftOut(args.in)))

(***************************************************************************)
(* C17.  The X keys of a result are the date fields of its points.         *)
(***************************************************************************)
everyKeyParses(points) == \A i \in DOMAIN points : getTime(points[i].date) # NaN
ascendingBy(points, compare(_, _)) ==
  \A i, j \in DOMAIN points : i < j => compare(points[i], points[j]) <= 0

\* C17: the points that prepareLineChartData returns are in ascending order
\* of parsed date when every X key parses as a date, and in lexicographic
\* order of key otherwise.
C17_SortedByDateElseByKey ==
  (/\ returned.called
   /\ args.fn = "prepareLineChartData"
   /\ ~returned.value.threw)
  => LET points == returned.value.points
     IN IF everyKeyParses(points)
        THEN ascendingBy(points, LAMBDA a, b : getTime(a.date) - getTime(b.date))
        ELSE ascendingBy(points, compareNames)

(***************************************************************************)
(* C18.  The rule of a pair of column types, in the order of the claim,    *)
(* and the types found in a column set.                                    *)
(***************************************************************************)
Categorical == {"category", "string"}
pairRule(xType, yType) ==
  IF xType = "number" /\ yType = "number" THEN "scatter"
  ELSE IF xType = "date" /\ yType = "number" THEN "line"
  ELSE IF xType \in Categorical \cup {"boolean"} /\ yType = "number" THEN "bar"
  ELSE IF xType \in Categorical /\ yType \in Categorical THEN "pie"
  ELSE Null
typesOf(columns) == [i \in DOMAIN columns |-> columns[i].type]
\* some two different columns have the types of the rule; the pie rule
\* also takes a category or string column with none beside it
pairFound(columns, rule) ==
  \/ \E i, j \in DOMAIN columns : i # j /\ pairRule(columns[i].type, columns[j].type) = rule
  \/ rule = "pie" /\ \E i \in DOMAIN columns : columns[i].type \in Categorical
firstRule(columns, order) ==
  IF \E n \in DOMAIN order : pairFound(columns, order[n])
  THEN order[CHOOSE n \in DOMAIN order :
               /\ pairFound(columns, order[n])
               /\ \A m \in 1..(n - 1) : ~pairFound(columns, order[m])]
  ELSE Null
has(columns, types) == \E i \in DOMAIN columns : columns[i].type \in types
pairSelected == ~Falsy(args.in.xColumn) /\ ~Falsy(args.in.yColumn)
selectedRule ==
  pairRule(getColumnType(args.in.columns, args.in.xColumn),
           getColumnType(args.in.columns, args.in.yColumn))
suggested == returned.called /\ args.fn = "suggestChartType" /\ Len(args.in.columns) > 0

\* C18 (as claimed): suggestChartType follows the precedence scatter, line,
\* bar, pie of the type pairs both for a selected pair of columns and, with
\* no or one column selected, for the first pair that the full column set
\* offers.
C18_SamePrecedenceInScan ==
  suggested =>
    /\ pairSelected /\ selectedRule # Null
         => returned.value.chartType = selectedRule
    /\ ~pairSelected
         => returned.value.chartType =
              firstRule(args.in.columns, << "scatter", "line", "bar", "pie" >>)

\* C18 (amended): for a selected pair of columns suggestChartType follows the
\* precedence scatter, line, bar, pie of the type pairs; with no or one
\* column selected it scans the full column set in another order: line for
\* a date and a numeric column, else bar for a category or string column
\* (not a boolean one) and a numeric column, else scatter for two numeric
\* columns, else pie for a category or string column, else no chart type.
C18_PairPrecedenceThenScanOrder ==
  suggested =>
    /\ pairSelected /\ selectedRule # Null
         => returned.value.chartType = selectedRule
    /\ ~pairSelected
         => LET columns == args.in.columns
                numbers == {i \in DOMAIN columns : columns[i].type = "number"}
            IN returned.value.chartType =
                 IF has(columns, {"date"}) /\ numbers # {} THEN "line"
                 ELSE IF has(columns, Categorical) /\ numbers # {} THEN "bar"
                 ELSE IF Cardinality(numbers) >= 2 THEN "scatter"
                 ELSE IF has(columns, Categorical) THEN "pie"
                 ELSE Null

\* two numeric columns and a date column, nothing selected: the scan
\* suggests a line chart
C18_Witness ==
  /\ suggested
  /\ ~pairSelected
  /\ typesOf(args.in.columns) = << "number", "number", "date" >>
  /\ returned.value.chartType = "line"

(***************************************************************************)
(* C19.  The sample of a dataset and the values of a column in it that are *)
(* neither null nor empty; what parses as a number and as a date.          *)
(***************************************************************************)
SampleRows == 100
sampleOf(data) == SubSeq(data.rows, 1, Min2(SampleRows, length(data)))
sampledValues(data, name) ==
  {Cell(sampleOf(data)[i], name) : i \in DOMAIN sampleOf(data)}
nonNullOf(data, name) ==
  {v \in sampledValues(data, name) : ~(v.k = "null" \/ v = Str(""))}
parsesAsNumber(v) == v.k = "number" \/ (v.k = "string" /\ v.s \in NumericStrings)
parsesAsDate(v) == v.k = "string" /\ v.s \in DateStrings
firstMatch(data, name) ==
  LET values == nonNullOf(data, name)
  IN IF \A v \in values : v.k = "boolean" THEN "boolean"
     ELSE IF \A v \in values : parsesAsNumber(v) THEN "number"
     ELSE IF \A v \in values : parsesAsDate(v) THEN "date"
     ELSE IF 10 * Cardinality(values) < Max2(10 * 10, Len(sampleOf(data)))
     THEN "category"
     ELSE "string"
inferred == returned.called /\ args.fn = "inferColumnTypes"

allNull(data, name) ==
  \A i \in DOMAIN data.rows :
    Cell(data.rows[i], name).k = "null" \/ Cell(data.rows[i], name) = Str("")

\* C20: for a column whose values are all null or empty inferColumnTypes
\* returns the type 'string' and a nullCount equal to the number of rows of
\* the dataset, whatever that number is.
C20_AllNullColumnCountsEveryRow ==
  inferred =>
    \A i \in DOMAIN returned.value :
      allNull(args.in, returned.value[i].name)
        => /\ returned.value[i].type = "string"
           /\ returned.value[i].nullCount = length(args.in)

(***************************************************************************)
(* C21.  The exact aggregate of a group is a fraction num / den of         *)
(* thousandths; a value is in thousandths too.  The rows of a group are    *)
(* the rows of its key whose X is not null and whose Y is a number.        *)
(***************************************************************************)
Fraction(num, den) == [num |-> num, den |-> den]
\* v is q cut off after the second decimal (towards zero)
truncated(v, q) ==
  /\ v % 10 = 0
  /\ IF q.num >= 0 THEN q.den * v <= q.num /\ q.num < q.den * (v + 10)
     ELSE q.den * (v - 10) < q.num /\ q.num <= q.den * v
\* v is the hundredth nearest to q, the upper one of two equally near
rounded(v, q) ==
  /\ v % 10 = 0
  /\ q.den * (v - 5) <= q.num /\ q.num < q.den * (v + 5)
groupOf(in, column, name) ==
  {i \in DOMAIN in.data.rows :
     /\ Cell(in.data.rows[i], column).k # "null"
     /\ String(Cell(in.data.rows[i], column)) = name}
numbersOf(in, rows) ==
  LET parsed == {i \in rows : ~parseFloatIsNaN(Cell(in.data.rows[i], "sales"))}
  IN [i \in parsed |-> parseFloat(Cell(in.data.rows[i], "sales"))]
\* a method applied to the numbers of a group; the bar transformer computes
\* this aggregate, and takes an unknown method for a sum
barAggregate(method, ys) ==
  LET n == Cardinality(DOMAIN ys)
      range == {ys[i] : i \in DOMAIN ys}
  IN CASE method \in {"avg", "average"} -> Fraction(SumFn(ys), n)
       [] method \in {"count", "COUNT"} -> Fraction(Thousand * n, 1)
       [] method = "min" -> Fraction(SetMin(range), 1)
       [] method = "max" -> Fraction(SetMax(range), 1)
       [] OTHER -> Fraction(SumFn(ys), 1)
\* the aggregate that the line transformer computes: a sum, a minimum or a
\* maximum when asked for, an average under every other method
lineAggregate(method, ys) ==
  LET n == Cardinality(DOMAIN ys)
      range == {ys[i] : i \in DOMAIN ys}
  IN CASE method = "sum" -> Fraction(SumFn(ys), 1)
       [] method = "min" -> Fraction(SetMin(range), 1)
       [] method = "max" -> Fraction(SetMax(range), 1)
       [] OTHER -> Fraction(SumFn(ys), n)
\* the aggregate behind point i of the result of the call
aggregateOfPoint(i) ==
  LET in == args.in
      points == IF args.fn = "preparePieChartData" THEN returned.value
                ELSE returned.value.points
      name == points[i].name
  IN CASE args.fn = "prepareBarChartData" ->
            barAggregate(in.aggregation, numbersOf(in, groupOf(in, "region", name)))
       [] args.fn = "prepareLineChartData" ->
            lineAggregate(in.aggregation, numbersOf(in, groupOf(in, "region", name)))
       [] OTHER ->
            IF name = "Others"
            THEN Fraction(SumFn([g \in categoriesOf(in) \ {points[j].name : j \in 1..(i - 1)}
                                   |-> groupValue(in, g)]), 1)
            ELSE IF Falsy(in.valueColumn)
            THEN Fraction(Thousand * Cardinality(groupOf(in, "region", name)), 1)
            ELSE Fraction(SumFn(numbersOf(in, groupOf(in, "region", name))), 1)
pointsReturned ==
  IF ~returned.called THEN << >>
  ELSE IF args.fn = "preparePieChartData" THEN returned.value
  ELSE IF args.fn \in {"prepareBarChartData", "prepareLineChartData"}
  THEN returned.value.points
  ELSE << >>

C30_LineAppliesSelectedMethod ==
  (returned.called /\ args.fn = "prepareLineChartData")
  => \A i \in DOMAIN pointsReturned :
       rounded(pointsReturned[i].value,
               barAggregate(args.in.aggregation,
                            numbersOf(args.in, groupOf(args.in, "region", pointsReturned[i].name))))

(***************************************************************************)
(* C22.  The dataset content of a prompt: its rows, the columns it lists   *)
(* and the columns of each of its rows.                                    *)
(***************************************************************************)
\* C22: the prompt that analyzeData, suggestChartWithAI and answerQuestion
\* send holds at most maxDataRows rows and at most maxColumns columns of
\* the dataset.
C22_PromptWithinCaps ==
  (returned.called /\ args.fn = "prompt" /\ returned.value.sent)
  => LET prompt == returned.value
     IN /\ Len(prompt.rows) <= maxDataRows
        /\ Len(prompt.columns) <= maxColumns
        /\ \A i \in DOMAIN prompt.rows : Cardinality(DOMAIN prompt.rows[i]) <= maxColumns

(***************************************************************************)
(* C23.  An insight carries the dataset whose analysis produced it.        *)
(***************************************************************************)
\* C23: the insights in the store belong to the dataset in the store: after
\* a re-upload has stored a new dataset no insight of the previous dataset
\* is in aiInsights, the result of an analysis still in flight included.
C23_InsightsBelongToCurrentDataset ==
  \A i \in DOMAIN aiInsights : aiInsights[i].dataset = csvData

inTime == args.in.t - args.in.last >= MIN_TIME_BETWEEN_CALLS
invalidArguments == NoRows(args.in.data) \/ ~hasColumns(args.in.columns)

\* C25: lastApiCallTime changes only when the gate accepts a call: a call
\* the gate rejects leaves it as it was, and a call the gate accepts sets
\* it to the time of the call, also when the call then fails the
\* validation of its arguments.
C25_LastCallTimeSetOnlyByAcceptedCalls ==
  (returned.called /\ args.fn = "analyzeData")
  => /\ returned.value.gateOk <=> inTime
     /\ returned.value.last = IF inTime THEN args.in.t ELSE args.in.last
     /\ ~inTime => returned.value.thrown.seconds > 0

\* an accepted call that fails validation has set lastApiCallTime
C25_Witness ==
  /\ returned.called /\ args.fn = "analyzeData"
  /\ inTime /\ invalidArguments
  /\ returned.value.thrown.message \in {"No data to analyze",
                                        "No columns information provided"}
  /\ returned.value.last = args.in.t /\ args.in.t # args.in.last

(***************************************************************************)
(* C26.  The busy flags of the asynchronous operations (SpecLive).         *)
(***************************************************************************)
\* C26: every asynchronous operation that has started clears its busy flag
\* once its promise has settled, whatever the outcome: aiInsightsLoading,
\* aiChatLoading, isProcessing and isExporting each return to false.
C26_BusyFlagsAreCleared ==
  /\ aiInsightsLoading ~> ~aiInsightsLoading
  /\ aiChatLoading ~> ~aiChatLoading
  /\ isProcessing ~> ~isProcessing
  /\ isExporting ~> ~isExporting

\* an analysis has failed after its retries, a question has been answered,
\* a file has failed to parse and an export has ended: no flag is set
C26_Witness ==
  /\ aiInsightsError = "OpenAI service is temporarily unavailable. Please try again later."
  /\ Len(aiChatMessages) = 2
  /\ uploadError = "CSV parsing encountered errors"
  /\ exportStatus # NoExportStatus
  /\ calls = << >> /\ parsing = << >>
  /\ ~aiInsightsLoading /\ ~aiChatLoading /\ ~isProcessing /\ ~isExporting

(***************************************************************************)
(* C27.  The column descriptors and the summary of the stored dataset.     *)
(***************************************************************************)
\* C27: whenever the store holds a dataset with rows, dataColumns and
\* dataStats are defined and are inferColumnTypes and getDataSummary of
\* that dataset: they are recomputed with every change of the dataset.
C27_ColumnsAndStatsOfStoredDataset ==
  ~NoRows(csvData)
  => /\ dataColumns # UndefinedColumns /\ dataStats # EmptyStats
     /\ dataColumns = Columns(inferColumnTypes(csvData))
     /\ dataStats = getDataSummary(csvData)

\* b.csv has replaced a.csv, for which a chart was saved, and the columns
\* in the store are those of b.csv
C27_Witness ==
  /\ csvData = DataB
  /\ \E i \in DOMAIN chartConfigs : "sales" \in referenced(chartConfigs[i])
  /\ \E i \in DOMAIN dataColumns.cols : dataColumns.cols[i].name = "profit"
  /\ dataStats.totalNulls = 1

(***************************************************************************)
(* C28.  The list of chart configurations under the store operations       *)
(* (SpecChartStore).                                                       *)
(***************************************************************************)
distinctIds(configs) ==
  \A i, j \in DOMAIN configs : configs[i].id = configs[j].id => i = j
idsOf(configs) == [i \in DOMAIN configs |-> configs[i].id]
\* the list without its i-th entry
without(configs, i) ==
  [j \in 1..(Len(configs) - 1) |-> IF j < i THEN configs[j] ELSE configs[j + 1]]

\* C28: the chart ids in chartConfigs are pairwise distinct; saving an
\* edited chart changes only the entry with the chart's id, keeps every id
\* in its place and adds no entry, and writes the configuration that was
\* saved; deleting a chart removes exactly its entry.
C28_ChartListWellFormed ==
  [][ /\ distinctIds(chartConfigs')
      /\ \A selections \in ConfiguratorInputs :
           (editingChart # NullConfig /\ handleSave(selections))
           => /\ idsOf(chartConfigs') = idsOf(chartConfigs)
              /\ \A i \in DOMAIN chartConfigs :
                   IF chartConfigs[i].id = editingChart.id
                   THEN chartConfigs'[i] \in
                          {chartConfigs[i], savedConfig(editingChart.id, selections)}
                   ELSE chartConfigs'[i] = chartConfigs[i]
      /\ \A i \in DOMAIN chartConfigs :
           handleDeleteChart(i) => chartConfigs' = without(chartConfigs, i) ]_vars

\* two charts saved at different times, the older one edited into a pie
\* chart and open in the configurator again
C28_Witness ==
  /\ Len(chartConfigs) = 2
  /\ chartConfigs[1].id < chartConfigs[2].id
  /\ chartConfigs[1].chartType = "pie" /\ chartConfigs[2].chartType = "bar"
  /\ showConfigurator /\ editingChart = chartConfigs[1]

(***************************************************************************)
(* C29.  The configurator after Quick Suggest (SpecQuickSuggest).          *)
(***************************************************************************)
\* C29: whenever suggestChartType returns a chart type for the columns of
\* the dataset, the selections that Quick Suggest leaves in the
\* configurator are a configuration validateChartConfig accepts, whatever
\* the suggested type, pie included.
C29_QuickSuggestLeavesValidConfig ==
  (returned.called /\ args.fn = "handleAutoSuggest"
     /\ suggestChartType(args.in.columns, Undefined, Undefined).chartType # Null)
  => validateChartConfig(returned.value,
        [i \in DOMAIN args.in.columns |-> args.in.columns[i].name]).isValid

====
